---- MODULE Spec2Model ----
(***************************************************************************)
(* Model of the effect engine of stellar-etl (package transform):          *)
(* TransformEffect, transactionOperationWrapper.effects, the per-kind      *)
(* generators, the sponsorship and liquidity-pool sweeps and the final     *)
(* stamping of EffectIndex / EffectId.                                     *)
(*                                                                         *)
(* Conventions.  An optional value (a Go pointer that may be nil) is a     *)
(* sequence of length 0 or 1.  A Go map is a TLA+ function; ranging over   *)
(* a map visits its keys in an order the runtime chooses, modelled by a    *)
(* permutation handed to the code as `ord`.  A panic (a Must* accessor on  *)
(* the wrong union arm, a nil dereference) aborts the process: pc goes to  *)
(* "panic".  An error is a string, "nil" when there is none.               *)
(***************************************************************************)
EXTENDS Integers, Sequences, FiniteSets, TLC

VARIABLES pc, tx, opi, effects, err, ret,
          transactions, ti, outFile, results, logged, strict,
          lookup

\* the state of the export command around the engine
exportVars == <<transactions, ti, outFile, results, logged, strict>>

vars == <<pc, tx, opi, effects, err, ret, transactions, ti, outFile, results, logged, strict,
          lookup>>

-----------------------------------------------------------------------------
(* Bounds of the model *)

\* longest change sequence handed to one operation
MaxChanges == 2
\* longest list of claimed offers in one operation result
MaxClaims == 2
\* most operations in one transaction
MaxOps == 2
\* most transactions in one run of the export command
MaxBatch == 2
\* longest list of contract events in one transaction
MaxEvents == 2

-----------------------------------------------------------------------------
(* Optional values and small helpers *)

None == <<>>
Some(x) == <<x>>
IsNone(o) == Len(o) = 0
IsSome(o) == Len(o) = 1
Get(o) == o[1]

Range(s) == {s[i] : i \in 1..Len(s)}

\* all sequences over S of length at most n
SeqsUpTo(S, n) == UNION {[1..k -> S] : k \in 0..n}

\* all orders in which the runtime may visit the elements of S
Permutations2(S) == {p \in [1..Cardinality(S) -> S] : Range(p) = S}

\* m with key k set to v (Go: m[k] = v)
MapSet(m, k, v) == [x \in DOMAIN m \cup {k} |-> IF x = k THEN v ELSE m[x]]
EmptyMap == [x \in {} |-> 0]

-----------------------------------------------------------------------------
(* Decimal formatting: fmt's %d and amount.String *)

DigitChars == <<"0", "1", "2", "3", "4", "5", "6", "7", "8", "9">>

RECURSIVE NatString(_)
NatString(n) ==
    IF n < 10 THEN DigitChars[n + 1]
    ELSE NatString(n \div 10) \o DigitChars[(n % 10) + 1]

\* %d of a signed integer
IntString(n) == IF n < 0 THEN "-" \o NatString(0 - n) ELSE NatString(n)

RECURSIVE PadLeft(_, _)
PadLeft(s, w) == IF Len(s) >= w THEN s ELSE PadLeft("0" \o s, w)

\* amount.String(v): the rational v / 10000000 printed with exactly 7
\* fractional digits (big.Rat.FloatString(7)); no binary floating point
AmountString(v) ==
    LET a == IF v < 0 THEN 0 - v ELSE v
    IN  (IF v < 0 THEN "-" ELSE "")
          \o NatString(a \div 10000000) \o "." \o PadLeft(NatString(a % 10000000), 7)

-----------------------------------------------------------------------------
(* Accounts, assets, ledger entries, changes *)

\* xdr.MuxedAccount: Type is the crypto key type, Ed25519 the base account,
\* Id the multiplexed sub-account id
Ed(a) == [Type |-> "ed25519", Ed25519 |-> a, Id |-> 0]
Mux(a, i) == [Type |-> "muxed_ed25519", Ed25519 |-> a, Id |-> i]

\* MuxedAccount.Address(): the G... address of a plain account, the M...
\* address (base account and sub-account id) of a multiplexed one
MuxedAddress(m) ==
    IF m.Type = "muxed_ed25519" THEN "M" \o m.Ed25519 \o "#" \o NatString(m.Id)
    ELSE m.Ed25519

\* MuxedAccount.ToAccountId().Address()
ToAccountId(m) == m.Ed25519

\* null.String{} and null.StringFrom(s)
NullString == None
StringFrom(s) == Some(s)

NativeAsset == [Type |-> "native", Code |-> "", Issuer |-> ""]
CreditAsset(code, issuer) == [Type |-> "credit_alphanum4", Code |-> code, Issuer |-> issuer]

\* xdr.LedgerEntry: the entry kind, LedgerEntry.SponsoringID() and the data
Entry(type, sponsor, data) == [Type |-> type, Sponsor |-> sponsor, Data |-> data]

\* ingest.Change
Change(type, pre, post) == [Type |-> type, Pre |-> pre, Post |-> post]

-----------------------------------------------------------------------------
(* The operation wrapper and the effect accumulator *)

\* zero value of time.Time, the LedgerClosed of an effect not yet stamped
ZeroTime == "0001-01-01T00:00:00Z"

\* utils.GetCloseTime: the close time of the ledger header as a UTC time,
\* an error for a negative time point
GetCloseTime(closeTime) ==
    IF closeTime < 0 THEN [time |-> "now", err |-> "the timepoint is negative"]
    ELSE [time |-> "unix:" \o IntString(closeTime), err |-> "nil"]

\* transactionOperationWrapper: one operation of a transaction.  t carries
\* the transaction (ingest.LedgerTransaction) together with the arguments
\* TransformEffect passes on: ledgerSeq, the close time, the passphrase
Wrapper(t, i) ==
    [index |-> i,
     transaction |-> t,
     operation |-> t.Operations[i + 1],
     ledgerSequence |-> t.LedgerSeq,
     network |-> t.Network,
     ledgerClosed |-> GetCloseTime(t.CloseTime).time]

\* toid.New(ledger, tx, op): the three bit fields of the 64-bit id
\* (ledger << 32 | tx << 12 | op), kept apart because the id itself is
\* wider than the integers TLC computes with
ToidNew(ledger, txOrder, opOrder) ==
    [LedgerSequence |-> ledger, TransactionOrder |-> txOrder, OperationOrder |-> opOrder]

\* %d of a toid: the decimal digits of ledger * 2^32 + tx * 2^12 + op,
\* computed in two limbs of five decimal digits (2^32 = 42949 * 10^5 + 67296)
ToidString(id) ==
    LET low == id.LedgerSequence * 67296 + id.TransactionOrder * 4096 + id.OperationOrder
        high == id.LedgerSequence * 42949 + (low \div 100000)
    IN  IF high = 0 THEN NatString(low)
        ELSE NatString(high) \o PadLeft(NatString(low % 100000), 5)

\* transactionOperationWrapper.ID
ID(o) == ToidNew(o.ledgerSequence, o.transaction.Index, o.index + 1)

\* transactionOperationWrapper.SourceAccount: the operation's own source,
\* or the transaction's when the operation has none
SourceAccount(o) ==
    IF IsSome(o.operation.SourceAccount) THEN Get(o.operation.SourceAccount)
    ELSE o.transaction.Source

\* transactionOperationWrapper.OperationType
OperationType(o) == o.operation.Type

\* effectsWrapper.add: the EffectOutput appended to wrapper.effects.  Type
\* stands for both the effect-type code and its name (TypeString); the
\* four stamped fields hold their zero values until effects() stamps them
add(o, address, addressMuxed, effectType, details) ==
    [Address |-> address,
     AddressMuxed |-> addressMuxed,
     OperationID |-> ID(o),
     Type |-> effectType,
     Details |-> details,
     LedgerClosed |-> ZeroTime,
     LedgerSequence |-> 0,
     EffectIndex |-> 0,
     EffectId |-> ""]

\* effectsWrapper.addUnmuxed
addUnmuxed(o, address, effectType, details) ==
    add(o, address, NullString, effectType, details)

\* addMuxed taken to record the address as it was given, the M... form of a
\* multiplexed account included, and no annotation
addMuxedAsGiven(o, address, effectType, details) ==
    add(o, MuxedAddress(address), NullString, effectType, details)

\* effectsWrapper.addMuxed
addMuxed(o, address, effectType, details) ==
    add(o, ToAccountId(address),
        IF address.Type = "muxed_ed25519" THEN StringFrom(MuxedAddress(address)) ELSE NullString,
        effectType, details)

\* What a generator or a sweep step leaves behind: the effects it appended,
\* the error it returned ("nil" for none) and whether it panicked
Appended(effs) == [effects |-> effs, err |-> "nil", panic |-> FALSE]
Failed(effs, e) == [effects |-> effs, err |-> e, panic |-> FALSE]
Panicked == [effects |-> <<>>, err |-> "nil", panic |-> TRUE]

\* addAssetDetails(details, asset, prefix): the asset type and, for an
\* issued asset, its code and issuer, under keys that start with prefix
addAssetDetails(details, asset, prefix) ==
    LET d1 == MapSet(details, prefix \o "asset_type", asset.Type)
    IN  IF asset.Type = "native" THEN d1
        ELSE MapSet(MapSet(d1, prefix \o "asset_code", asset.Code),
                    prefix \o "asset_issuer", asset.Issuer)

\* addAccountAndMuxedAccountDetails(details, account, prefix): the plain
\* address under prefix and, for a multiplexed account, its M... address
\* and sub-account id
addAccountAndMuxedAccountDetails(details, a, prefix) ==
    LET d1 == MapSet(details, prefix, ToAccountId(a))
    IN  IF a.Type = "muxed_ed25519"
        THEN MapSet(MapSet(d1, prefix \o "_muxed", MuxedAddress(a)),
                    prefix \o "_muxed_id", NatString(a.Id))
        ELSE d1

-----------------------------------------------------------------------------
(* Balance-transfer generators *)

\* keypair.DefaultSignerWeight
DefaultSignerWeight == 1

\* addAccountCreatedEffects without the effect for the master key
AccountCreatedWithoutSigner(o) ==
    Appended(<<
      addUnmuxed(o, o.operation.Body.Destination, "EffectAccountCreated",
                 [starting_balance |-> AmountString(o.operation.Body.StartingBalance)]),
      addMuxed(o, SourceAccount(o), "EffectAccountDebited",
               [asset_type |-> "native",
                amount |-> AmountString(o.operation.Body.StartingBalance)])
    >>)

\* effectsWrapper.addAccountCreatedEffects
addAccountCreatedEffects(o) ==
    LET op == o.operation.Body
    IN  Appended(<<
          addUnmuxed(o, op.Destination, "EffectAccountCreated",
                     [starting_balance |-> AmountString(op.StartingBalance)]),
          addMuxed(o, SourceAccount(o), "EffectAccountDebited",
                   [asset_type |-> "native", amount |-> AmountString(op.StartingBalance)]),
          addUnmuxed(o, op.Destination, "EffectSignerCreated",
                     [public_key |-> op.Destination, weight |-> DefaultSignerWeight])
        >>)

\* addPaymentEffects with the debit built from the amount alone
PaymentDebitWithoutAsset(o) ==
    Appended(<<
      addMuxed(o, o.operation.Body.Destination, "EffectAccountCredited",
               addAssetDetails([amount |-> AmountString(o.operation.Body.Amount)],
                               o.operation.Body.Asset, "")),
      addMuxed(o, SourceAccount(o), "EffectAccountDebited",
               [amount |-> AmountString(o.operation.Body.Amount)])
    >>)

\* effectsWrapper.addPaymentEffects
addPaymentEffects(o) ==
    LET op == o.operation.Body
        details == addAssetDetails([amount |-> AmountString(op.Amount)], op.Asset, "")
    IN  Appended(<<
          addMuxed(o, op.Destination, "EffectAccountCredited", details),
          addMuxed(o, SourceAccount(o), "EffectAccountDebited", details)
        >>)

-----------------------------------------------------------------------------
(* Operation results *)

\* transactionOperationWrapper.OperationResult followed by the Must*
\* accessors of the arm a generator needs: results[index].MustTr() panics
\* unless the result code is opInner, Must<Arm>Result() unless the result
\* carries that arm, MustSuccess() unless the arm holds its success value
ResultPanics(o, arm) ==
    LET r == o.operation.Result
    IN  r.Code # "opInner" \/ r.Type # arm \/ ~r.Success

\* Asset.StringCanonical
StringCanonical(a) == IF a.Type = "native" THEN "native" ELSE a.Code \o ":" \o a.Issuer

\* PathPaymentStrictReceiveResult.SendAmount: the amount of the last hop
\* when no offer was crossed, else the amounts bought by the leading
\* offers that were paid in the asset of the first one
RECURSIVE SendAmountFrom(_, _, _)
SendAmountFrom(offers, i, sendAsset) ==
    IF i > Len(offers) THEN 0
    ELSE IF StringCanonical(offers[i].AssetBought) # sendAsset THEN 0
    ELSE offers[i].AmountBought + SendAmountFrom(offers, i + 1, sendAsset)

SendAmount(r) ==
    IF ~r.Success THEN 0
    ELSE IF Len(r.Offers) = 0 THEN r.LastAmount
    ELSE SendAmountFrom(r.Offers, 1, StringCanonical(r.Offers[1].AssetBought))

\* PathPaymentStrictSendResult.DestAmount
DestAmount(r) == IF ~r.Success THEN 0 ELSE r.LastAmount

-----------------------------------------------------------------------------
(* Liquidity-pool delta lookup *)

errLiquidityPoolChangeNotFound == "liquidity pool change not found"
errLiquidityPoolBodyType == "unexpected liquity pool body type"
errOperationMeta == "operation meta not available"

\* LedgerTransaction.GetOperationChanges(index): the changes of the
\* operation, or an error when the transaction meta cannot supply them;
\* the same call on the same transaction always answers the same
GetOperationChanges(o) ==
    IF o.transaction.MetaOk THEN [changes |-> o.operation.Changes, err |-> "nil"]
    ELSE [changes |-> <<>>, err |-> errOperationMeta]

ZeroDelta == [ReserveA |-> 0, ReserveB |-> 0, TotalPoolShares |-> 0]
LPResult(lp, delta, e) == [lp |-> lp, delta |-> delta, err |-> e]

\* the loop of getLiquidityPoolAndProductDelta from change i on
RECURSIVE LiquidityPoolDeltaFrom(_, _, _)
LiquidityPoolDeltaFrom(changes, i, lpID) ==
    IF i > Len(changes) THEN LPResult(None, ZeroDelta, errLiquidityPoolChangeNotFound)
    ELSE
      LET c == changes[i]
          next == LiquidityPoolDeltaFrom(changes, i + 1, lpID)
      IN  IF c.Type # "liquidity_pool" THEN next
          ELSE IF /\ IsSome(c.Pre) /\ IsSome(lpID)
                  /\ Get(c.Pre).Data.LiquidityPoolId # Get(lpID) THEN next
          ELSE IF IsSome(c.Pre) /\ Get(c.Pre).Data.BodyType # "constant_product"
               THEN LPResult(None, ZeroDelta, errLiquidityPoolBodyType)
          ELSE IF /\ IsSome(c.Post) /\ IsSome(lpID)
                  /\ Get(c.Post).Data.LiquidityPoolId # Get(lpID) THEN next
          ELSE IF IsSome(c.Post) /\ Get(c.Post).Data.BodyType # "constant_product"
               THEN LPResult(None, ZeroDelta, errLiquidityPoolBodyType)
          ELSE
            LET pre == IF IsSome(c.Pre) THEN Get(c.Pre).Data ELSE ZeroDelta
                post == IF IsSome(c.Post) THEN Get(c.Post).Data ELSE ZeroDelta
                lp == IF IsSome(c.Post) THEN Some(Get(c.Post).Data)
                      ELSE IF IsSome(c.Pre) THEN Some(Get(c.Pre).Data) ELSE None
            IN  LPResult(lp,
                         [ReserveA |-> post.ReserveA - pre.ReserveA,
                          ReserveB |-> post.ReserveB - pre.ReserveB,
                          TotalPoolShares |-> post.TotalPoolShares - pre.TotalPoolShares],
                         "nil")

\* the lookup that takes the first pool change whatever pool was asked for
FirstPoolAndProductDelta(o, lpID) ==
    LET got == GetOperationChanges(o)
    IN  IF got.err # "nil" THEN LPResult(None, ZeroDelta, got.err)
        ELSE LiquidityPoolDeltaFrom(got.changes, 1, None)

\* transactionOperationWrapper.getLiquidityPoolAndProductDelta
getLiquidityPoolAndProductDelta(o, lpID) ==
    LET got == GetOperationChanges(o)
    IN  IF got.err # "nil" THEN LPResult(None, ZeroDelta, got.err)
        ELSE LiquidityPoolDeltaFrom(got.changes, 1, lpID)

\* the error of the free function for no pool change: one made on the
\* spot with the text of errLiquidityPoolChangeNotFound, which is not that
\* value (err == errLiquidityPoolChangeNotFound is false for it)
errChangeNotFoundText == "fmt.Errorf: " \o errLiquidityPoolChangeNotFound

\* LedgerTransaction.GetOperationChanges(uint32(operationIndex))
GetOperationChangesAt(transaction, operationIndex) ==
    IF transaction.MetaOk
    THEN [changes |-> transaction.Operations[operationIndex + 1].Changes, err |-> "nil"]
    ELSE [changes |-> <<>>, err |-> errOperationMeta]

\* the body of the loop of the free function getLiquidityPoolAndProductDelta
\* for one pool change: continue when the change is of another pool, else
\* the return of the error or of the entry and the three differences.  The reserves and
\* shares before and after start at zero and are set from the state that
\* is there
PoolChangeDelta(c, lpID) ==
    LET wanted(e) == IsNone(lpID) \/ Get(e).Data.LiquidityPoolId = Get(lpID)
        constant(e) == Get(e).Data.BodyType = "constant_product"
        pre == IF IsSome(c.Pre)
               THEN <<Get(c.Pre).Data.ReserveA, Get(c.Pre).Data.ReserveB,
                      Get(c.Pre).Data.TotalPoolShares>>
               ELSE <<0, 0, 0>>
        post == IF IsSome(c.Post)
                THEN <<Get(c.Post).Data.ReserveA, Get(c.Post).Data.ReserveB,
                       Get(c.Post).Data.TotalPoolShares>>
                ELSE <<0, 0, 0>>
        lp == IF IsSome(c.Post) THEN Some(Get(c.Post).Data)
              ELSE IF IsSome(c.Pre) THEN Some(Get(c.Pre).Data) ELSE None
        continue == [continue |-> TRUE, return |-> LPResult(None, ZeroDelta, "nil")]
        return(r) == [continue |-> FALSE, return |-> r]
    IN  IF IsSome(c.Pre) /\ ~wanted(c.Pre) THEN continue
        ELSE IF IsSome(c.Pre) /\ ~constant(c.Pre)
             THEN return(LPResult(None, ZeroDelta, errLiquidityPoolBodyType))
        ELSE IF IsSome(c.Post) /\ ~wanted(c.Post) THEN continue
        ELSE IF IsSome(c.Post) /\ ~constant(c.Post)
             THEN return(LPResult(None, ZeroDelta, errLiquidityPoolBodyType))
        ELSE return(LPResult(lp, [ReserveA |-> post[1] - pre[1],
                                  ReserveB |-> post[2] - pre[2],
                                  TotalPoolShares |-> post[3] - pre[3]], "nil"))

\* the loop of the free function from change i on
RECURSIVE PoolDeltaOfChangesFrom(_, _, _)
PoolDeltaOfChangesFrom(changes, i, lpID) ==
    IF i > Len(changes) THEN LPResult(None, ZeroDelta, errChangeNotFoundText)
    ELSE IF changes[i].Type # "liquidity_pool" THEN PoolDeltaOfChangesFrom(changes, i + 1, lpID)
    ELSE IF PoolChangeDelta(changes[i], lpID).continue
         THEN PoolDeltaOfChangesFrom(changes, i + 1, lpID)
    ELSE PoolChangeDelta(changes[i], lpID).return

\* getLiquidityPoolAndProductDelta(operationIndex, transaction, lpID), the
\* free function that the details of an operation are built with
getLiquidityPoolAndProductDeltaOf(operationIndex, transaction, lpID) ==
    LET got == GetOperationChangesAt(transaction, operationIndex)
    IN  IF got.err # "nil" THEN LPResult(None, ZeroDelta, got.err)
        ELSE PoolDeltaOfChangesFrom(got.changes, 1, lpID)

\* liquidityPoolDetails dereferences the entry and its constant-product
\* body: it panics on a nil entry and on any other body
liquidityPoolDetailsPanics(lp) ==
    IsNone(lp) \/ Get(lp).BodyType # "constant_product"

\* liquidityPoolDetails
liquidityPoolDetails(lp) ==
    [id |-> lp.LiquidityPoolId,
     fee_bp |-> lp.Fee,
     type |-> "constant_product",
     total_trustlines |-> IntString(lp.PoolSharesTrustLineCount),
     total_shares |-> AmountString(lp.TotalPoolShares),
     reserves |-> <<[Asset |-> StringCanonical(lp.AssetA), Amount |-> AmountString(lp.ReserveA)],
                    [Asset |-> StringCanonical(lp.AssetB), Amount |-> AmountString(lp.ReserveB)]>>]

-----------------------------------------------------------------------------
(* Sponsor resolution *)

\* what getSponsor returns: the sponsor, if any, and the error
SponsorResult(sponsor, e) == [sponsor |-> sponsor, err |-> e]

\* setOps.Signer.Key.Address() when the body is a set-options with a
\* signer, "" otherwise
SignerKeyOf(operation) ==
    IF operation.Type = "SetOptions" /\ IsSome(operation.Body.Signer)
    THEN Get(operation.Body.Signer).Key
    ELSE ""

\* transactionOperationWrapper.getSignerSponsorInChange
getSignerSponsorInChange(signerKey, change) ==
    IF change.Type # "account" \/ IsNone(change.Post) THEN None
    ELSE LET preSigners == IF IsSome(change.Pre) THEN Get(change.Pre).Data.SignerSponsors
                           ELSE EmptyMap
             postSigners == Get(change.Post).Data.SignerSponsors
         IN  IF signerKey \notin DOMAIN postSigners THEN None
             ELSE IF signerKey \in DOMAIN preSigners
                       /\ preSigners[signerKey] = postSigners[signerKey]
             THEN None
             ELSE Some(postSigners[signerKey])

\* the loop of transactionOperationWrapper.getSponsor from change i on
RECURSIVE SponsorFrom(_, _, _)
SponsorFrom(changes, i, signerKey) ==
    IF i > Len(changes) THEN SponsorResult(None, "nil")
    ELSE IF signerKey # "" /\ IsSome(getSignerSponsorInChange(signerKey, changes[i]))
    THEN SponsorResult(getSignerSponsorInChange(signerKey, changes[i]), "nil")
    ELSE IF IsSome(changes[i].Pre) \/ IsNone(changes[i].Post)
    THEN SponsorFrom(changes, i + 1, signerKey)
    ELSE IF IsSome(Get(changes[i].Post).Sponsor)
    THEN SponsorResult(Get(changes[i].Post).Sponsor, "nil")
    ELSE SponsorFrom(changes, i + 1, signerKey)

\* getSponsor taken to look at created entries only, whatever the signer of
\* the operation
SponsorOfCreatedEntry(o) ==
    IF GetOperationChanges(o).err # "nil" THEN SponsorResult(None, GetOperationChanges(o).err)
    ELSE SponsorFrom(GetOperationChanges(o).changes, 1, "")

\* transactionOperationWrapper.getSponsor
getSponsor(o) ==
    IF GetOperationChanges(o).err # "nil" THEN SponsorResult(None, GetOperationChanges(o).err)
    ELSE SponsorFrom(GetOperationChanges(o).changes, 1, SignerKeyOf(o.operation))

\* getSignerSponsorInChange, the free function of operation.go
getSignerSponsorInChangeOf(signerKey, change) ==
    IF change.Type # "account" \/ IsNone(change.Post) THEN None
    ELSE LET preSigners == IF IsSome(change.Pre) THEN Get(change.Pre).Data.SignerSponsors
                           ELSE EmptyMap
             postSigners == Get(change.Post).Data.SignerSponsors
             preFound == signerKey \in DOMAIN preSigners
             postFound == signerKey \in DOMAIN postSigners
         IN  IF ~postFound THEN None
             ELSE IF preFound /\ preSigners[signerKey] = postSigners[signerKey] THEN None
             ELSE Some(postSigners[signerKey])

\* the loop of the free function getSponsor from change i on
RECURSIVE SponsorOfChangesFrom(_, _, _)
SponsorOfChangesFrom(changes, i, signerKey) ==
    IF i > Len(changes) THEN SponsorResult(None, "nil")
    ELSE LET c == changes[i]
         IN  IF signerKey # "" /\ getSignerSponsorInChangeOf(signerKey, c) # None
             THEN SponsorResult(getSignerSponsorInChangeOf(signerKey, c), "nil")
             ELSE IF c.Pre # None \/ c.Post = None
             THEN SponsorOfChangesFrom(changes, i + 1, signerKey)
             ELSE IF Get(c.Post).Sponsor # None
             THEN SponsorResult(Get(c.Post).Sponsor, "nil")
             ELSE SponsorOfChangesFrom(changes, i + 1, signerKey)

\* getSponsor(operation, transaction, operationIndex), the free function of
\* operation.go
getSponsorOf(operation, transaction, operationIndex) ==
    IF GetOperationChangesAt(transaction, operationIndex).err # "nil"
    THEN SponsorResult(None, GetOperationChangesAt(transaction, operationIndex).err)
    ELSE SponsorOfChangesFrom(GetOperationChangesAt(transaction, operationIndex).changes, 1,
                              SignerKeyOf(operation))

-----------------------------------------------------------------------------

(* Trade generator *)

\* tradeDetails: the buyer's and the seller's view of one claim
tradeDetails(buyer, seller, claim) ==
    [bd |-> addAssetDetails(
              addAssetDetails(
                [offer_id |-> claim.OfferId,
                 seller |-> seller,
                 bought_amount |-> AmountString(claim.AmountSold),
                 sold_amount |-> AmountString(claim.AmountBought)],
                claim.AssetSold, "bought_"),
              claim.AssetBought, "sold_"),
     sd |-> addAssetDetails(
              addAssetDetails(
                addAccountAndMuxedAccountDetails(
                  [offer_id |-> claim.OfferId,
                   bought_amount |-> AmountString(claim.AmountBought),
                   sold_amount |-> AmountString(claim.AmountSold)],
                  buyer, "seller"),
                claim.AssetBought, "bought_"),
              claim.AssetSold, "sold_")]

\* the kinds addClaimTradeEffects walks through, in its order
tradeEffects == <<"EffectTrade", "EffectOfferUpdated", "EffectOfferRemoved", "EffectOfferCreated">>

\* the loop of addClaimTradeEffects from kind n (0-based) on
RECURSIVE ClaimTradeEffectsFrom(_, _, _, _, _)
ClaimTradeEffectsFrom(o, buyer, claim, isPathPayment, n) ==
    IF n >= Len(tradeEffects) THEN <<>>
    ELSE IF n = 3 /\ isPathPayment
         THEN ClaimTradeEffectsFrom(o, buyer, claim, isPathPayment, n + 1)
    ELSE <<addMuxed(o, buyer, tradeEffects[n + 1],
                    tradeDetails(buyer, claim.SellerId, claim).bd),
           addUnmuxed(o, claim.SellerId, tradeEffects[n + 1],
                      tradeDetails(buyer, claim.SellerId, claim).sd)>>
           \o ClaimTradeEffectsFrom(o, buyer, claim, isPathPayment, n + 1)

\* addClaimTradeEffects that takes every claim as part of a path payment
ClaimTradeEffectsOfPathPayment(o, buyer, claim, isPathPayment) ==
    ClaimTradeEffectsFrom(o, buyer, claim, TRUE, 0)

\* effectsWrapper.addClaimTradeEffects
addClaimTradeEffects(o, buyer, claim, isPathPayment) ==
    ClaimTradeEffectsFrom(o, buyer, claim, isPathPayment, 0)

\* effectsWrapper.addClaimLiquidityPoolTradeEffect
addClaimLiquidityPoolTradeEffect(o, claim) ==
    LET got == getLiquidityPoolAndProductDelta(o, Some(claim.LiquidityPoolId))
    IN  IF got.err # "nil" THEN Failed(<<>>, got.err)
        ELSE IF liquidityPoolDetailsPanics(got.lp) THEN Panicked
        ELSE Appended(<<
               addMuxed(o, SourceAccount(o), "EffectLiquidityPoolTrade",
                 [liquidity_pool |-> liquidityPoolDetails(Get(got.lp)),
                  sold |-> [asset |-> StringCanonical(claim.AssetSold),
                            amount |-> AmountString(claim.AmountSold)],
                  bought |-> [asset |-> StringCanonical(claim.AssetBought),
                              amount |-> AmountString(claim.AmountBought)]])
             >>)

\* the loop of addIngestTradeEffects from claim i on, acc being the effects
\* the earlier claims appended
RECURSIVE IngestTradeEffectsFrom(_, _, _, _, _, _)
RECURSIVE IngestPoolTrade(_, _, _, _, _, _, _)
IngestTradeEffectsFrom(o, buyer, claims, isPathPayment, i, acc) ==
    IF i > Len(claims) THEN Appended(acc)
    ELSE
      LET claim == claims[i]
      IN  IF claim.AmountSold = 0 /\ claim.AmountBought = 0
          THEN IngestTradeEffectsFrom(o, buyer, claims, isPathPayment, i + 1, acc)
          ELSE IF claim.Type = "liquidity_pool"
          THEN IngestPoolTrade(o, buyer, claims, isPathPayment, i, acc,
                               addClaimLiquidityPoolTradeEffect(o, claim))
          ELSE IngestTradeEffectsFrom(o, buyer, claims, isPathPayment, i + 1,
                 acc \o addClaimTradeEffects(o, buyer, claim, isPathPayment))

\* the liquidity-pool arm of that loop for claim i, r being what
\* addClaimLiquidityPoolTradeEffect left behind: its error ends the loop
IngestPoolTrade(o, buyer, claims, isPathPayment, i, acc, r) ==
    IF r.panic THEN Panicked
    ELSE IF r.err # "nil" THEN Failed(acc, r.err)
    ELSE IngestTradeEffectsFrom(o, buyer, claims, isPathPayment, i + 1, acc \o r.effects)

\* effectsWrapper.addIngestTradeEffects
addIngestTradeEffects(o, buyer, claims, isPathPayment) ==
    IngestTradeEffectsFrom(o, buyer, claims, isPathPayment, 1, <<>>)

\* effectsWrapper.addManageSellOfferEffects
addManageSellOfferEffects(o) ==
    IF ResultPanics(o, "ManageSellOffer") THEN Panicked
    ELSE addIngestTradeEffects(o, SourceAccount(o), o.operation.Result.Offers, FALSE)

\* effectsWrapper.addManageBuyOfferEffects
addManageBuyOfferEffects(o) ==
    IF ResultPanics(o, "ManageBuyOffer") THEN Panicked
    ELSE addIngestTradeEffects(o, SourceAccount(o), o.operation.Result.Offers, FALSE)

\* the create-passive-sell-offer generator taken to read its own result arm
\* only, whatever the tag of the result
PassiveSellOfferOfOwnArm(o) ==
    IF ResultPanics(o, "CreatePassiveSellOffer") THEN Panicked
    ELSE addIngestTradeEffects(o, SourceAccount(o), o.operation.Result.Offers, FALSE)

\* effectsWrapper.addCreatePassiveSellOfferEffect: the claims come from the
\* ManageSellOffer arm when the result is tagged so, else from its own arm
addCreatePassiveSellOfferEffect(o) ==
    LET result == o.operation.Result
        arm == IF result.Type = "ManageSellOffer" THEN "ManageSellOffer"
               ELSE "CreatePassiveSellOffer"
    IN  IF result.Code # "opInner" THEN Panicked
        ELSE IF ResultPanics(o, arm) THEN Panicked
        ELSE addIngestTradeEffects(o, SourceAccount(o), result.Offers, FALSE)

\* the effects b appended after the effects a already in the accumulator
After(a, b) == IF b.panic THEN Panicked ELSE [b EXCEPT !.effects = a \o b.effects]

\* pathPaymentStrictReceiveEffects with the debit read from the operation's
\* declared maximum, not from the result
PathPaymentReceiveDebitsSendMax(o) ==
    IF ResultPanics(o, "PathPaymentStrictReceive") THEN Panicked
    ELSE After(
           <<addMuxed(o, o.operation.Body.Destination, "EffectAccountCredited",
               addAssetDetails([amount |-> AmountString(o.operation.Body.DestAmount)],
                               o.operation.Body.DestAsset, "")),
             addMuxed(o, SourceAccount(o), "EffectAccountDebited",
               addAssetDetails([amount |-> AmountString(o.operation.Body.SendMax)],
                               o.operation.Body.SendAsset, ""))>>,
           addIngestTradeEffects(o, SourceAccount(o), o.operation.Result.Offers, FALSE))

\* effectsWrapper.pathPaymentStrictReceiveEffects
pathPaymentStrictReceiveEffects(o) ==
    LET op == o.operation.Body
        source == SourceAccount(o)
        result == o.operation.Result
    IN  IF ResultPanics(o, "PathPaymentStrictReceive") THEN Panicked
        ELSE After(
               <<addMuxed(o, op.Destination, "EffectAccountCredited",
                   addAssetDetails([amount |-> AmountString(op.DestAmount)], op.DestAsset, "")),
                 addMuxed(o, source, "EffectAccountDebited",
                   addAssetDetails([amount |-> AmountString(SendAmount(result))], op.SendAsset, ""))>>,
               addIngestTradeEffects(o, source, result.Offers, FALSE))

\* effectsWrapper.addPathPaymentStrictSendEffects
addPathPaymentStrictSendEffects(o) ==
    LET op == o.operation.Body
        source == SourceAccount(o)
        result == o.operation.Result
    IN  IF ResultPanics(o, "PathPaymentStrictSend") THEN Panicked
        ELSE After(
               <<addMuxed(o, op.Destination, "EffectAccountCredited",
                   addAssetDetails([amount |-> AmountString(DestAmount(result))], op.DestAsset, "")),
                 addMuxed(o, source, "EffectAccountDebited",
                   addAssetDetails([amount |-> AmountString(op.SendAmount)], op.SendAsset, ""))>>,
               addIngestTradeEffects(o, source, result.Offers, TRUE))

-----------------------------------------------------------------------------
(* Ranging over Go maps, sort.Strings *)

\* the signer keys of the model in lexicographic order
LexOrder == <<"GSIGNER1", "GSIGNER2">>
SignerKeys == Range(LexOrder)

\* a < b for strings, lexicographically
StringLess(a, b) ==
    \E i, j \in 1..Len(LexOrder) : LexOrder[i] = a /\ LexOrder[j] = b /\ i < j

\* the keys of map m in the order the runtime visits them, p being the
\* order it chose among all keys
RangeOrder(m, p) == SelectSeq(p, LAMBDA k : k \in DOMAIN m)

RECURSIVE InsertSorted(_, _)
InsertSorted(s, x) ==
    IF Len(s) = 0 THEN <<x>>
    ELSE IF StringLess(x, Head(s)) THEN <<x>> \o s
    ELSE <<Head(s)>> \o InsertSorted(Tail(s), x)

\* the keys left in the order the runtime handed them out
Unsorted(s) == s

\* sort.Strings
RECURSIVE SortStrings(_)
SortStrings(s) ==
    IF Len(s) = 0 THEN <<>> ELSE InsertSorted(SortStrings(Tail(s)), Head(s))

-----------------------------------------------------------------------------
(* Account generators *)

\* a flag bit test, as AccountFlags.IsAuthRequired and its like do it
HasFlag(flags, bit) == (flags \div bit) % 2 = 1

\* setAuthFlagDetails
setAuthFlagDetails(flagDetails, flags, setValue) ==
    LET d1 == IF HasFlag(flags, 1) THEN MapSet(flagDetails, "auth_required_flag", setValue)
              ELSE flagDetails
        d2 == IF HasFlag(flags, 2) THEN MapSet(d1, "auth_revocable_flag", setValue) ELSE d1
        d3 == IF HasFlag(flags, 4) THEN MapSet(d2, "auth_immutable_flag", setValue) ELSE d2
    IN  IF HasFlag(flags, 8) THEN MapSet(d3, "auth_clawback_enabled_flag", setValue) ELSE d3

\* addSetOptionsEffects, the effects of one account change on the signers:
\* removed and updated signers in sorted order, then created ones
SetOptionsSignerEffects(o, before, after, ord) ==
    LET source == SourceAccount(o)
        beforeSortedSigners == SortStrings(RangeOrder(before, ord.a))
        afterSortedSigners == SortStrings(RangeOrder(after, ord.b))
        gone(addy) ==
            IF addy \notin DOMAIN after
            THEN <<addMuxed(o, source, "EffectSignerRemoved", [public_key |-> addy])>>
            ELSE IF after[addy] # before[addy]
            THEN <<addMuxed(o, source, "EffectSignerUpdated",
                            [public_key |-> addy, weight |-> after[addy]])>>
            ELSE <<>>
        made(addy) ==
            IF addy \in DOMAIN before THEN <<>>
            ELSE <<addMuxed(o, source, "EffectSignerCreated",
                            [public_key |-> addy, weight |-> after[addy]])>>
        Walk[i \in 0..Len(beforeSortedSigners)] ==
            IF i = 0 THEN <<>> ELSE Walk[i - 1] \o gone(beforeSortedSigners[i])
        Walk2[i \in 0..Len(afterSortedSigners)] ==
            IF i = 0 THEN <<>> ELSE Walk2[i - 1] \o made(afterSortedSigners[i])
    IN  Walk[Len(beforeSortedSigners)] \o Walk2[Len(afterSortedSigners)]

\* the loop of addSetOptionsEffects over the changes from change i on
RECURSIVE SetOptionsChangesFrom(_, _, _, _, _)
SetOptionsChangesFrom(o, changes, i, acc, ord) ==
    IF i > Len(changes) THEN Appended(acc)
    ELSE
      LET change == changes[i]
      IN  IF change.Type # "account" THEN SetOptionsChangesFrom(o, changes, i + 1, acc, ord)
          ELSE IF IsNone(change.Pre) \/ IsNone(change.Post) THEN Panicked
          ELSE LET before == Get(change.Pre).Data.Signers
                   after == Get(change.Post).Data.Signers
               IN  IF before = after THEN SetOptionsChangesFrom(o, changes, i + 1, acc, ord)
                   ELSE SetOptionsChangesFrom(o, changes, i + 1,
                          acc \o SetOptionsSignerEffects(o, before, after, ord), ord)

\* addSetOptionsEffects from the read of the operation's changes on, which
\* answered got: first holds the effects of the operation's own fields
SetOptionsChanges(o, got, first, ord) ==
    IF got.err # "nil" THEN Failed(first, got.err)
    ELSE SetOptionsChangesFrom(o, got.changes, 1, first, ord)

\* effectsWrapper.addSetOptionsEffects
addSetOptionsEffects(o, ord) ==
    LET source == SourceAccount(o)
        op == o.operation.Body
        home == IF IsSome(op.HomeDomain)
                THEN <<addMuxed(o, source, "EffectAccountHomeDomainUpdated",
                                [home_domain |-> Get(op.HomeDomain)])>>
                ELSE <<>>
        t1 == IF IsSome(op.LowThreshold)
              THEN MapSet(EmptyMap, "low_threshold", Get(op.LowThreshold)) ELSE EmptyMap
        t2 == IF IsSome(op.MedThreshold)
              THEN MapSet(t1, "med_threshold", Get(op.MedThreshold)) ELSE t1
        thresholdDetails == IF IsSome(op.HighThreshold)
                            THEN MapSet(t2, "high_threshold", Get(op.HighThreshold)) ELSE t2
        thresholds == IF DOMAIN thresholdDetails # {}
                      THEN <<addMuxed(o, source, "EffectAccountThresholdsUpdated", thresholdDetails)>>
                      ELSE <<>>
        f1 == IF IsSome(op.SetFlags) THEN setAuthFlagDetails(EmptyMap, Get(op.SetFlags), TRUE)
              ELSE EmptyMap
        flagDetails == IF IsSome(op.ClearFlags)
                       THEN setAuthFlagDetails(f1, Get(op.ClearFlags), FALSE) ELSE f1
        flags == IF DOMAIN flagDetails # {}
                 THEN <<addMuxed(o, source, "EffectAccountFlagsUpdated", flagDetails)>>
                 ELSE <<>>
        inflation == IF IsSome(op.InflationDest)
                     THEN <<addMuxed(o, source, "EffectAccountInflationDestinationUpdated",
                                     [inflation_destination |-> Get(op.InflationDest)])>>
                     ELSE <<>>
    IN  SetOptionsChanges(o, GetOperationChanges(o),
                          home \o thresholds \o flags \o inflation, ord)

\* effectsWrapper.addAccountMergeEffects
addAccountMergeEffects(o) ==
    LET source == SourceAccount(o)
        dest == o.operation.Body.Destination
        details == [amount |-> AmountString(o.operation.Result.SourceAccountBalance),
                    asset_type |-> "native"]
    IN  IF ResultPanics(o, "AccountMerge") THEN Panicked
        ELSE Appended(<<addMuxed(o, source, "EffectAccountDebited", details),
                        addMuxed(o, dest, "EffectAccountCredited", details),
                        addMuxed(o, source, "EffectAccountRemoved", EmptyMap)>>)

\* effectsWrapper.addInflationEffects
addInflationEffects(o) ==
    LET payouts == o.operation.Result.Payouts
    IN  IF ResultPanics(o, "Inflation") THEN Panicked
        ELSE Appended([i \in 1..Len(payouts) |->
               addUnmuxed(o, payouts[i].Destination, "EffectAccountCredited",
                          [amount |-> AmountString(payouts[i].Amount), asset_type |-> "native"])])

\* EffectType(0), the zero value of the effect-type enumeration
EffectTypeZero == "EffectAccountCreated"

\* base64.StdEncoding.EncodeToString, kept symbolic
Base64(raw) == "base64(" \o raw \o ")"

\* the first change of the given entry kind from change i on, 0 when none
RECURSIVE FirstChangeOfType(_, _, _)
FirstChangeOfType(changes, i, type) ==
    IF i > Len(changes) THEN 0
    ELSE IF changes[i].Type = type THEN i
    ELSE FirstChangeOfType(changes, i + 1, type)

\* effectsWrapper.addManageDataEffects
addManageDataEffects(o) ==
    LET source == SourceAccount(o)
        op == o.operation.Body
        got == GetOperationChanges(o)
        k == FirstChangeOfType(got.changes, 1, "data")
        before == got.changes[k].Pre
        after == got.changes[k].Post
        details == IF k # 0 /\ IsSome(after)
                   THEN [name |-> op.DataName, value |-> Base64(Get(after).Data.DataValue)]
                   ELSE [name |-> op.DataName]
        effect == IF k = 0 THEN EffectTypeZero
                  ELSE IF IsNone(before) /\ IsSome(after) THEN "EffectDataCreated"
                  ELSE IF IsSome(before) /\ IsNone(after) THEN "EffectDataRemoved"
                  ELSE "EffectDataUpdated"
    IN  IF got.err # "nil" THEN Failed(<<>>, got.err)
        ELSE IF k # 0 /\ IsNone(before) /\ IsNone(after) THEN Panicked
        ELSE Appended(<<addMuxed(o, source, effect, details)>>)

\* effectsWrapper.addBumpSequenceEffects
addBumpSequenceEffects(o) ==
    LET source == SourceAccount(o)
        got == GetOperationChanges(o)
        k == FirstChangeOfType(got.changes, 1, "account")
        before == got.changes[k].Pre
        after == got.changes[k].Post
    IN  IF got.err # "nil" THEN Failed(<<>>, got.err)
        ELSE IF k = 0 THEN Appended(<<>>)
        ELSE IF IsNone(before) \/ IsNone(after) THEN Panicked
        ELSE IF Get(before).Data.SeqNum # Get(after).Data.SeqNum
        THEN Appended(<<addMuxed(o, source, "EffectSequenceBumped",
                                 [new_seq |-> Get(after).Data.SeqNum])>>)
        ELSE Appended(<<>>)

-----------------------------------------------------------------------------
(* Liquidity-pool deposit and withdrawal *)

\* effectsWrapper.addLiquidityPoolDepositEffect
addLiquidityPoolDepositEffect(o) ==
    LET got == getLiquidityPoolAndProductDelta(o, Some(o.operation.Body.LiquidityPoolId))
        lp == Get(got.lp)
    IN  IF got.err # "nil" THEN Failed(<<>>, got.err)
        ELSE IF liquidityPoolDetailsPanics(got.lp) THEN Panicked
        ELSE Appended(<<addMuxed(o, SourceAccount(o), "EffectLiquidityPoolDeposited",
               [liquidity_pool |-> liquidityPoolDetails(lp),
                reserves_deposited |->
                  <<[Asset |-> StringCanonical(lp.AssetA), Amount |-> AmountString(got.delta.ReserveA)],
                    [Asset |-> StringCanonical(lp.AssetB), Amount |-> AmountString(got.delta.ReserveB)]>>,
                shares_received |-> AmountString(got.delta.TotalPoolShares)])>>)

\* effectsWrapper.addLiquidityPoolWithdrawEffect
addLiquidityPoolWithdrawEffect(o) ==
    LET got == getLiquidityPoolAndProductDelta(o, Some(o.operation.Body.LiquidityPoolId))
        lp == Get(got.lp)
    IN  IF got.err # "nil" THEN Failed(<<>>, got.err)
        ELSE IF liquidityPoolDetailsPanics(got.lp) THEN Panicked
        ELSE Appended(<<addMuxed(o, SourceAccount(o), "EffectLiquidityPoolWithdrew",
               [liquidity_pool |-> liquidityPoolDetails(lp),
                reserves_received |->
                  <<[Asset |-> StringCanonical(lp.AssetA), Amount |-> AmountString(0 - got.delta.ReserveA)],
                    [Asset |-> StringCanonical(lp.AssetB), Amount |-> AmountString(0 - got.delta.ReserveB)]>>,
                shares_redeemed |-> AmountString(0 - got.delta.TotalPoolShares)])>>)

-----------------------------------------------------------------------------
(* Footprint generators *)

\* the loop shared by addExtendFootprintTtlEffect and
\* addRestoreFootprintExpirationEffect: the keys of the ttl entries among
\* the changes; a change without a post-state is an error
RECURSIVE FootprintEntriesFrom(_, _, _)
FootprintEntriesFrom(changes, i, acc) ==
    IF i > Len(changes) THEN [entries |-> acc, ok |-> TRUE]
    ELSE IF IsNone(changes[i].Post) THEN [entries |-> acc, ok |-> FALSE]
    ELSE IF Get(changes[i].Post).Type = "ttl"
         THEN FootprintEntriesFrom(changes, i + 1,
                Append(acc, Base64(Get(changes[i].Post).Data.KeyHash)))
    ELSE FootprintEntriesFrom(changes, i + 1, acc)

\* effectsWrapper.addExtendFootprintTtlEffect
addExtendFootprintTtlEffect(o) ==
    LET got == GetOperationChanges(o)
        found == FootprintEntriesFrom(got.changes, 1, <<>>)
    IN  IF got.err # "nil" THEN Failed(<<>>, got.err)
        ELSE IF ~found.ok THEN Failed(<<>>, "invalid bump footprint expiration operation")
        ELSE Appended(<<addMuxed(o, SourceAccount(o), "EffectExtendFootprintTtl",
                                 [entries |-> found.entries,
                                  extend_to |-> o.operation.Body.ExtendTo])>>)

\* effectsWrapper.addRestoreFootprintExpirationEffect
addRestoreFootprintExpirationEffect(o) ==
    LET got == GetOperationChanges(o)
        found == FootprintEntriesFrom(got.changes, 1, <<>>)
    IN  IF got.err # "nil" THEN Failed(<<>>, got.err)
        ELSE IF ~found.ok THEN Failed(<<>>, "invalid restore footprint operation")
        ELSE Appended(<<addMuxed(o, SourceAccount(o), "EffectRestoreFootprint",
                                 [entries |-> found.entries])>>)

-----------------------------------------------------------------------------
(* Sweeps *)

\* sponsoringEffectsTable with the created and removed kinds of a trustline
\* taken for each other
SponsoringTableSwapped ==
    [account |-> [created |-> "EffectAccountSponsorshipCreated",
                  updated |-> "EffectAccountSponsorshipUpdated",
                  removed |-> "EffectAccountSponsorshipRemoved"],
     trustline |-> [created |-> "EffectTrustlineSponsorshipRemoved",
                    updated |-> "EffectTrustlineSponsorshipUpdated",
                    removed |-> "EffectTrustlineSponsorshipCreated"],
     data |-> [created |-> "EffectDataSponsorshipCreated",
               updated |-> "EffectDataSponsorshipUpdated",
               removed |-> "EffectDataSponsorshipRemoved"],
     claimable_balance |-> [created |-> "EffectClaimableBalanceSponsorshipCreated",
                            updated |-> "EffectClaimableBalanceSponsorshipUpdated",
                            removed |-> "EffectClaimableBalanceSponsorshipRemoved"]]

\* sponsoringEffectsTable
sponsoringEffectsTable ==
    [account |-> [created |-> "EffectAccountSponsorshipCreated",
                  updated |-> "EffectAccountSponsorshipUpdated",
                  removed |-> "EffectAccountSponsorshipRemoved"],
     trustline |-> [created |-> "EffectTrustlineSponsorshipCreated",
                    updated |-> "EffectTrustlineSponsorshipUpdated",
                    removed |-> "EffectTrustlineSponsorshipRemoved"],
     data |-> [created |-> "EffectDataSponsorshipCreated",
               updated |-> "EffectDataSponsorshipUpdated",
               removed |-> "EffectDataSponsorshipRemoved"],
     claimable_balance |-> [created |-> "EffectClaimableBalanceSponsorshipCreated",
                            updated |-> "EffectClaimableBalanceSponsorshipUpdated",
                            removed |-> "EffectClaimableBalanceSponsorshipRemoved"]]

\* change.Pre != nil && change.Pre.SponsoringID() != nil, and for Post
Sponsored(e) == IsSome(e) /\ IsSome(Get(e).Sponsor)

errInvalidBalanceId == "Invalid balanceId in change from op"

\* effectsWrapper.addLedgerEntrySponsorshipEffects
addLedgerEntrySponsorshipEffects(o, change) ==
    IF change.Type \notin DOMAIN sponsoringEffectsTable THEN Appended(<<>>)
    ELSE
      LET effectsForEntryType == sponsoringEffectsTable[change.Type]
          preSponsor == Get(Get(change.Pre).Sponsor)
          postSponsor == Get(Get(change.Post).Sponsor)
          kind == IF ~Sponsored(change.Pre) /\ Sponsored(change.Post) THEN "created"
                  ELSE IF Sponsored(change.Pre) /\ ~Sponsored(change.Post) THEN "removed"
                  ELSE IF Sponsored(change.Pre) /\ Sponsored(change.Post)
                       THEN IF preSponsor = postSponsor THEN "none" ELSE "updated"
                  ELSE "none"
          effectType == effectsForEntryType[kind]
          details == CASE kind = "created" -> [sponsor |-> postSponsor]
                       [] kind = "removed" -> [former_sponsor |-> preSponsor]
                       [] kind = "updated" -> [new_sponsor |-> postSponsor,
                                               former_sponsor |-> preSponsor]
          data == IF IsSome(change.Post) THEN Get(change.Post).Data ELSE Get(change.Pre).Data
      IN  IF kind = "none" THEN Appended(<<>>)
          ELSE CASE change.Type = "account" ->
                      Appended(<<addUnmuxed(o, data.AccountId, effectType, details)>>)
                 [] change.Type = "trustline" ->
                      Appended(<<addUnmuxed(o, data.AccountId, effectType,
                        IF data.Asset.Type = "pool_share"
                        THEN MapSet(MapSet(details, "asset_type", "liquidity_pool"),
                                    "liquidity_pool_id", data.Asset.LiquidityPoolId)
                        ELSE MapSet(details, "asset", StringCanonical(data.Asset)))>>)
                 [] change.Type = "data" ->
                      Appended(<<addMuxed(o, SourceAccount(o), effectType,
                                          MapSet(details, "data_name", data.DataName))>>)
                 [] change.Type = "claimable_balance" ->
                      IF ~data.BalanceId.Valid THEN Failed(<<>>, errInvalidBalanceId)
                      ELSE Appended(<<addMuxed(o, SourceAccount(o), effectType,
                                      MapSet(details, "balance_id", data.BalanceId.Hex))>>)

\* the signer-sponsorship step taken to announce every sponsored signer of
\* the state after as newly sponsored, whatever the state before
SignerSponsorshipOfPostOnly(o, change, ord) ==
    IF change.Type # "account" \/ IsNone(change.Post) THEN <<>>
    ELSE LET postSigners == Get(change.Post).Data.SignerSponsors
             all == SortStrings(RangeOrder(postSigners, ord.b))
         IN  [i \in 1..Len(all) |->
                addUnmuxed(o, Get(change.Post).Data.AccountId,
                           "EffectSignerSponsorshipCreated",
                           [sponsor |-> postSigners[all[i]], signer |-> all[i]])]

\* effectsWrapper.addSignerSponsorshipEffects
addSignerSponsorshipEffects(o, change, ord) ==
    IF change.Type # "account" THEN <<>>
    ELSE
      LET preSigners == IF IsSome(change.Pre) THEN Get(change.Pre).Data.SignerSponsors
                        ELSE EmptyMap
          postSigners == IF IsSome(change.Post) THEN Get(change.Post).Data.SignerSponsors
                         ELSE EmptyMap
          all == SortStrings(
                   RangeOrder(preSigners, ord.a)
                     \o SelectSeq(RangeOrder(postSigners, ord.b),
                                  LAMBDA s : s \notin DOMAIN preSigners))
          one(signer) ==
              LET foundPre == signer \in DOMAIN preSigners
                  foundPost == signer \in DOMAIN postSigners
              IN  IF ~foundPre /\ ~foundPost THEN <<>>
                  ELSE IF ~foundPre /\ foundPost
                  THEN <<addUnmuxed(o, Get(change.Post).Data.AccountId,
                                    "EffectSignerSponsorshipCreated",
                                    [sponsor |-> postSigners[signer], signer |-> signer])>>
                  ELSE IF ~foundPost /\ foundPre
                  THEN <<addUnmuxed(o, Get(change.Pre).Data.AccountId,
                                    "EffectSignerSponsorshipRemoved",
                                    [former_sponsor |-> preSigners[signer], signer |-> signer])>>
                  ELSE IF preSigners[signer] = postSigners[signer] THEN <<>>
                  ELSE <<addUnmuxed(o, Get(change.Post).Data.AccountId,
                                    "EffectSignerSponsorshipUpdated",
                                    [former_sponsor |-> preSigners[signer],
                                     new_sponsor |-> postSigners[signer],
                                     signer |-> signer])>>
          Walk[i \in 0..Len(all)] == IF i = 0 THEN <<>> ELSE Walk[i - 1] \o one(all[i])
      IN  Walk[Len(all)]

\* the lifecycle step taken to announce every pool change: a pool that has a
\* state after as created, any other as removed
PoolEffectsOfEveryPoolChange(o, change) ==
    IF change.Type # "liquidity_pool" THEN Appended(<<>>)
    ELSE IF IsSome(change.Post)
    THEN Appended(<<addMuxed(o, SourceAccount(o), "EffectLiquidityPoolCreated",
                [liquidity_pool |-> liquidityPoolDetails(Get(change.Post).Data)])>>)
    ELSE Appended(<<addMuxed(o, SourceAccount(o), "EffectLiquidityPoolRemoved",
                [liquidity_pool_id |-> Get(change.Pre).Data.LiquidityPoolId])>>)

\* effectsWrapper.addLedgerEntryLiquidityPoolEffects
addLedgerEntryLiquidityPoolEffects(o, change) ==
    IF change.Type # "liquidity_pool" THEN Appended(<<>>)
    ELSE IF IsNone(change.Pre) /\ IsSome(change.Post)
    THEN IF Get(change.Post).Data.BodyType # "constant_product" THEN Panicked
         ELSE Appended(<<addMuxed(o, SourceAccount(o), "EffectLiquidityPoolCreated",
                [liquidity_pool |-> liquidityPoolDetails(Get(change.Post).Data)])>>)
    ELSE IF IsSome(change.Pre) /\ IsNone(change.Post)
    THEN Appended(<<addMuxed(o, SourceAccount(o), "EffectLiquidityPoolRemoved",
                [liquidity_pool_id |-> Get(change.Pre).Data.LiquidityPoolId])>>)
    ELSE Appended(<<>>)

-----------------------------------------------------------------------------
(* Trustline generators *)

\* addLiquidityPoolAssetDetails(details, params): the asset type of pool
\* shares and the id of the pool the parameters name; an error for
\* parameters that are not those of a constant-product pool
addLiquidityPoolAssetDetails(details, lpp) ==
    IF lpp.Type # "constant_product"
    THEN [details |-> details, err |-> "unknown liquidity pool type"]
    ELSE [details |-> MapSet(MapSet(details, "asset_type", "liquidity_pool_shares"),
                             "liquidity_pool_id", lpp.PoolId),
          err |-> "nil"]

\* the comparison of the requested line with the asset of the trustline of
\* a change, done on the assets themselves
SameAsset(line, asset) ==
    /\ line.Type = asset.Type
    /\ IF line.Type = "pool_share" THEN line.LiquidityPool.PoolId = asset.LiquidityPoolId
       ELSE line = asset

\* op.Line.Type != trustLine.Asset.Type, negated: the requested line and
\* the asset of the trustline are of the same asset type
SameAssetType(line, asset) == line.Type = asset.Type

\* the loop of addChangeTrustEffects from change i on
RECURSIVE ChangeTrustFrom(_, _, _)
ChangeTrustFrom(o, changes, i) ==
    IF i > Len(changes) THEN Appended(<<>>)
    ELSE
      LET change == changes[i]
          op == o.operation.Body
          effect == IF IsNone(change.Pre) THEN "EffectTrustlineCreated"
                    ELSE IF IsNone(change.Post) THEN "EffectTrustlineRemoved"
                    ELSE "EffectTrustlineUpdated"
          trustLine == IF IsSome(change.Post) THEN Get(change.Post).Data
                       ELSE Get(change.Pre).Data
          details == [limit |-> AmountString(op.Limit)]
          pool == addLiquidityPoolAssetDetails(details, op.Line.LiquidityPool)
      IN  IF change.Type # "trustline" THEN ChangeTrustFrom(o, changes, i + 1)
          ELSE IF IsNone(change.Pre) /\ IsNone(change.Post) THEN Panicked
          ELSE IF ~SameAssetType(op.Line, trustLine.Asset)
               THEN ChangeTrustFrom(o, changes, i + 1)
          ELSE IF trustLine.Asset.Type = "pool_share"
               THEN IF pool.err # "nil" THEN Failed(<<>>, pool.err)
                    ELSE Appended(<<addMuxed(o, SourceAccount(o), effect, pool.details)>>)
          ELSE Appended(<<addMuxed(o, SourceAccount(o), effect,
                                   addAssetDetails(details, op.Line, ""))>>)

\* effectsWrapper.addChangeTrustEffects
addChangeTrustEffects(o) ==
    LET got == GetOperationChanges(o)
    IN  IF got.err # "nil" THEN Failed(<<>>, got.err)
        ELSE ChangeTrustFrom(o, got.changes, 1)

\* the bits of xdr.TrustLineFlags
TrustLineFlagsAuthorizedFlag == 1
TrustLineFlagsAuthorizedToMaintainLiabilitiesFlag == 2
TrustLineFlagsTrustlineClawbackEnabledFlag == 4

\* setTrustLineFlagDetails
setTrustLineFlagDetails(flagDetails, flags, setValue) ==
    LET d1 == IF HasFlag(flags, TrustLineFlagsAuthorizedFlag)
              THEN MapSet(flagDetails, "authorized_flag", setValue) ELSE flagDetails
        d2 == IF HasFlag(flags, TrustLineFlagsAuthorizedToMaintainLiabilitiesFlag)
              THEN MapSet(d1, "authorized_to_maintain_liabilites", setValue) ELSE d1
    IN  IF HasFlag(flags, TrustLineFlagsTrustlineClawbackEnabledFlag)
        THEN MapSet(d2, "clawback_enabled_flag", setValue) ELSE d2

\* effectsWrapper.addTrustLineFlagsEffect: setFlags and clearFlags are
\* pointers, None for nil.  The effects it appends
addTrustLineFlagsEffect(o, account, trustor, asset, setFlags, clearFlags) ==
    LET d0 == addAssetDetails([trustor |-> trustor], asset, "")
        d1 == IF IsSome(setFlags) THEN setTrustLineFlagDetails(d0, Get(setFlags), TRUE) ELSE d0
        d2 == IF IsSome(clearFlags) THEN setTrustLineFlagDetails(d1, Get(clearFlags), FALSE)
              ELSE d1
        flagDetailsAdded == IsSome(setFlags) \/ IsSome(clearFlags)
    IN  IF flagDetailsAdded THEN <<addMuxed(o, account, "EffectTrustlineFlagsUpdated", d2)>>
        ELSE <<>>

\* the other arguments of Asset.LessThan's comparisons: the asset types in
\* the order of their codes in the XDR enumeration, and the asset codes of
\* the model in lexicographic order
AssetTypeOrder == <<"native", "credit_alphanum4", "credit_alphanum12">>
AssetCodeOrder == <<"", "EUR", "USD">>

\* the place of x in the sequence s
IndexIn(s, x) == CHOOSE i \in 1..Len(s) : s[i] = x

\* Asset.LessThan: by type, then by code, then by issuer (the issued assets
\* of the model have one issuer)
AssetLessThan(a, b) ==
    \/ IndexIn(AssetTypeOrder, a.Type) < IndexIn(AssetTypeOrder, b.Type)
    \/ /\ a.Type = b.Type
       /\ IndexIn(AssetCodeOrder, a.Code) < IndexIn(AssetCodeOrder, b.Code)

\* sort.Sort on sortableClaimableBalanceEntries: for the few entries of one
\* operation an insertion sort, which keeps entries of one asset in the
\* order they came in
RECURSIVE InsertBalance(_, _)
InsertBalance(s, cb) ==
    IF Len(s) = 0 THEN <<cb>>
    ELSE IF AssetLessThan(cb.Asset, s[Len(s)].Asset)
         THEN InsertBalance(SubSeq(s, 1, Len(s) - 1), cb) \o <<s[Len(s)]>>
    ELSE s \o <<cb>>

\* the balances in the order the changes list them
InOrderOfChanges(cbs) == cbs

RECURSIVE SortBalances(_)
SortBalances(cbs) ==
    IF Len(cbs) = 0 THEN <<>>
    ELSE InsertBalance(SortBalances(SubSeq(cbs, 1, Len(cbs) - 1)), cbs[Len(cbs)])

errMarshalBalanceId == "xdr: invalid claimable balance id"

\* effectsWrapper.addClaimableBalanceEntryCreatedEffects: one
\* ClaimableBalanceCreated effect for the balance, on the source
addClaimableBalanceEntryCreatedEffects(o, source, cb) ==
    IF ~cb.BalanceId.Valid THEN Failed(<<>>, errMarshalBalanceId)
    ELSE Appended(<<addMuxed(o, source, "EffectClaimableBalanceCreated",
                     [balance_id |-> cb.BalanceId.Hex,
                      amount |-> AmountString(cb.Amount),
                      asset |-> StringCanonical(cb.Asset)])>>)

\* the first loop of addLiquidityPoolRevokedEffect from change i on: the
\* claimable balances the operation created (cbs), the id of the last one
\* of each asset (assetToCBID), and the error of an id that cannot be
\* encoded
RECURSIVE CreatedBalancesFrom(_, _, _, _)
CreatedBalancesFrom(changes, i, assetToCBID, cbs) ==
    IF i > Len(changes) THEN [assetToCBID |-> assetToCBID, cbs |-> cbs, err |-> "nil"]
    ELSE IF /\ changes[i].Type = "claimable_balance"
            /\ IsNone(changes[i].Pre) /\ IsSome(changes[i].Post)
         THEN IF ~Get(changes[i].Post).Data.BalanceId.Valid
              THEN [assetToCBID |-> assetToCBID, cbs |-> cbs, err |-> errMarshalBalanceId]
              ELSE CreatedBalancesFrom(changes, i + 1,
                     MapSet(assetToCBID, StringCanonical(Get(changes[i].Post).Data.Asset),
                            Get(changes[i].Post).Data.BalanceId.Hex),
                     cbs \o <<Get(changes[i].Post).Data>>)
    ELSE CreatedBalancesFrom(changes, i + 1, assetToCBID, cbs)

\* the second loop: the effects of the created balances, in sorted order
RECURSIVE BalanceCreatedEffectsFrom(_, _, _, _)
BalanceCreatedEffectsFrom(o, cbs, i, acc) ==
    IF i > Len(cbs) THEN Appended(acc)
    ELSE IF addClaimableBalanceEntryCreatedEffects(o, SourceAccount(o), cbs[i]).err # "nil"
         THEN Failed(acc, addClaimableBalanceEntryCreatedEffects(o, SourceAccount(o), cbs[i]).err)
    ELSE BalanceCreatedEffectsFrom(o, cbs, i + 1,
           acc \o addClaimableBalanceEntryCreatedEffects(o, SourceAccount(o), cbs[i]).effects)

\* the third loop: for each of the two assets of the pool that has a
\* created balance, the asset, the reserve taken out of the pool and the
\* id of the balance
reservesRevoked(lp, delta, assetToCBID) ==
    LET aa == <<[Asset |-> StringCanonical(lp.AssetA), Amount |-> AmountString(0 - delta.ReserveA)],
                [Asset |-> StringCanonical(lp.AssetB), Amount |-> AmountString(0 - delta.ReserveB)]>>
        one(x) == IF x.Asset \in DOMAIN assetToCBID
                  THEN <<[asset |-> x.Asset, amount |-> x.Amount,
                          claimable_balance_id |-> assetToCBID[x.Asset]]>>
                  ELSE <<>>
    IN  one(aa[1]) \o one(aa[2])

\* addLiquidityPoolRevokedEffect past the effects of the created balances,
\* which left r
RevokedAfterBalances(o, got, found, r) ==
    IF r.err # "nil" THEN r
    ELSE IF liquidityPoolDetailsPanics(got.lp) THEN Panicked
    ELSE Appended(r.effects \o
           <<addMuxed(o, SourceAccount(o), "EffectLiquidityPoolRevoked",
               [liquidity_pool |-> liquidityPoolDetails(Get(got.lp)),
                reserves_revoked |-> reservesRevoked(Get(got.lp), got.delta, found.assetToCBID),
                shares_revoked |-> AmountString(0 - got.delta.TotalPoolShares)])>>)

\* addLiquidityPoolRevokedEffect past its first loop, which left found
RevokedAfterScan(o, acc, got, found) ==
    IF found.err # "nil" THEN Failed(acc, found.err)
    ELSE IF DOMAIN found.assetToCBID = {} THEN Appended(acc)
    ELSE RevokedAfterBalances(o, got, found,
           BalanceCreatedEffectsFrom(o, SortBalances(found.cbs), 1, acc))

\* addLiquidityPoolRevokedEffect past the lookup of the pool, which
\* answered got; changes is what GetOperationChanges answered
RevokedAfterLookup(o, acc, got, changes) ==
    IF got.err = errLiquidityPoolChangeNotFound THEN Appended(acc)
    ELSE IF got.err # "nil" THEN Failed(acc, got.err)
    ELSE IF changes.err # "nil" THEN Failed(acc, changes.err)
    ELSE RevokedAfterScan(o, acc, got,
                          CreatedBalancesFrom(changes.changes, 1, EmptyMap, <<>>))

\* effectsWrapper.addLiquidityPoolRevokedEffect, acc being the effects the
\* caller has appended before
addLiquidityPoolRevokedEffect(o, acc) ==
    RevokedAfterLookup(o, acc, getLiquidityPoolAndProductDelta(o, None), GetOperationChanges(o))

\* AllowTrustOp.Asset.ToAsset(issuer)
AllowTrustAsset(code, issuer) ==
    [Type |-> code.Type, Code |-> code.Code, Issuer |-> issuer]

\* the call of addTrustLineFlagsEffect in the three arms of the switch of
\* addAllowTrustEffects ("forward compatibility")
AllowTrustFlagsEffectOnly(o) ==
    LET source == SourceAccount(o)
        op == o.operation.Body
        asset == AllowTrustAsset(op.Asset, ToAccountId(source))
    IN  IF HasFlag(op.Authorize, TrustLineFlagsAuthorizedFlag)
        THEN addTrustLineFlagsEffect(o, source, op.Trustor, asset,
                                     Some(TrustLineFlagsAuthorizedFlag), None)
        ELSE IF HasFlag(op.Authorize, TrustLineFlagsAuthorizedToMaintainLiabilitiesFlag)
        THEN addTrustLineFlagsEffect(o, source, op.Trustor, asset,
                                     Some(TrustLineFlagsAuthorizedToMaintainLiabilitiesFlag), None)
        ELSE addTrustLineFlagsEffect(o, source, op.Trustor, asset, None,
               Some(TrustLineFlagsAuthorizedFlag
                      + TrustLineFlagsAuthorizedToMaintainLiabilitiesFlag))

\* the switch of addAllowTrustEffects: in each arm an effect with the
\* trustor and the asset, then the one of addTrustLineFlagsEffect
AllowTrustFlagsEffects(o) ==
    LET source == SourceAccount(o)
        op == o.operation.Body
        asset == AllowTrustAsset(op.Asset, ToAccountId(source))
        details == addAssetDetails([trustor |-> op.Trustor], asset, "")
    IN  <<addMuxed(o, source, "EffectTrustlineFlagsUpdated", details)>>
          \o AllowTrustFlagsEffectOnly(o)

\* effectsWrapper.addAllowTrustEffects
addAllowTrustEffects(o) ==
    addLiquidityPoolRevokedEffect(o, AllowTrustFlagsEffects(o))

\* effectsWrapper.addSetTrustLineFlagsEffects
addSetTrustLineFlagsEffects(o) ==
    addLiquidityPoolRevokedEffect(o,
      addTrustLineFlagsEffect(o, SourceAccount(o), o.operation.Body.Trustor,
                              o.operation.Body.Asset,
                              Some(o.operation.Body.SetFlags),
                              Some(o.operation.Body.ClearFlags)))

-----------------------------------------------------------------------------
(* Host-function generator *)

errNetworkNotSet ==
    "invokeHostFunction effects cannot be determined unless network passphrase is set"

\* the event kinds of the Stellar Asset Contract that contractevents knows
StellarAssetContractEventTypes == {"transfer", "mint", "clawback", "burn"}

\* the id of the contract that stands for an asset on a network: a digest
\* of the passphrase and the asset, kept symbolic
AssetContractId(asset, network) == "C[" \o StringCanonical(asset) \o "@" \o network \o "]"

\* contractevents.NewStellarAssetContractEvent: an error unless the event is
\* of one of the four kinds and was emitted by the contract of its asset on
\* the given network
NewStellarAssetContractEvent(event, network) ==
    IF /\ event.Type \in StellarAssetContractEventTypes
       /\ event.ContractId = AssetContractId(event.Asset, network)
    THEN [evt |-> Some(event), err |-> "nil"]
    ELSE [evt |-> None, err |-> "not a stellar asset contract event"]

\* strkey.IsValidEd25519PublicKey of the address of one side of an event:
\* it holds for the G... address of an account, not for the C... address of
\* a contract
IsValidEd25519PublicKey(side) == side.Type = "account"

\* the debit of an event taken to be recorded for accounts only, a side
\* that is a contract yielding nothing
EventDebitOfAccount(o, from, details) ==
    IF IsValidEd25519PublicKey(from)
    THEN <<add(o, from.Address, NullString, "EffectAccountDebited", details)>>
    ELSE <<>>

\* the debit of the `from` side of an event
EventDebit(o, from, details) ==
    IF IsValidEd25519PublicKey(from)
    THEN <<add(o, from.Address, NullString, "EffectAccountDebited", details)>>
    ELSE <<addMuxed(o, SourceAccount(o), "EffectContractDebited",
                    MapSet(details, "contract", from.Address))>>

\* the credit of the `to` side of an event
EventCredit(o, to, details) ==
    IF IsValidEd25519PublicKey(to)
    THEN <<add(o, to.Address, NullString, "EffectAccountCredited", details)>>
    ELSE <<addMuxed(o, SourceAccount(o), "EffectContractCredited",
                    MapSet(details, "contract", to.Address))>>

\* the body of the loop of addInvokeHostFunctionEffects: the effects of one
\* event
EventEffects(o, event) ==
    IF NewStellarAssetContractEvent(event, o.network).err # "nil" THEN <<>>
    ELSE LET details ==
                 MapSet(MapSet(addAssetDetails(EmptyMap, event.Asset, ""),
                               "contract_event_type", event.Type),
                        "amount", AmountString(event.Amount))
         IN  CASE event.Type = "transfer" ->
                    EventDebit(o, event.From, details) \o EventCredit(o, event.To, details)
               [] event.Type = "mint" -> EventCredit(o, event.To, details)
               [] event.Type = "clawback" -> EventDebit(o, event.From, details)
               [] event.Type = "burn" -> EventDebit(o, event.From, details)

RECURSIVE InvokeHostFunctionEffectsFrom(_, _, _)
InvokeHostFunctionEffectsFrom(o, events, i) ==
    IF i > Len(events) THEN <<>>
    ELSE EventEffects(o, events[i]) \o InvokeHostFunctionEffectsFrom(o, events, i + 1)

\* effectsWrapper.addInvokeHostFunctionEffects
addInvokeHostFunctionEffects(o, events) ==
    IF o.network = "" THEN Failed(<<>>, errNetworkNotSet)
    ELSE Appended(InvokeHostFunctionEffectsFrom(o, events, 1))

-----------------------------------------------------------------------------

(* transactionOperationWrapper.effects *)

errUnknownOperationType == "unknown operation type"

\* the operation kinds of the closed enumeration xdr.OperationType
OperationTypes ==
    {"CreateAccount", "Payment", "PathPaymentStrictReceive", "ManageSellOffer",
     "CreatePassiveSellOffer", "SetOptions", "ChangeTrust", "AllowTrust",
     "AccountMerge", "Inflation", "ManageData", "BumpSequence", "ManageBuyOffer",
     "PathPaymentStrictSend", "CreateClaimableBalance", "ClaimClaimableBalance",
     "BeginSponsoringFutureReserves", "EndSponsoringFutureReserves",
     "RevokeSponsorship", "Clawback", "ClawbackClaimableBalance",
     "SetTrustLineFlags", "LiquidityPoolDeposit", "LiquidityPoolWithdraw",
     "InvokeHostFunction", "ExtendFootprintTtl", "RestoreFootprint"}

\* one arm of the switch of effects(): the generator functions it called,
\* in order, and what they left behind
Ran(names, r) == [known |-> TRUE, generators |-> names, r |-> r]

\* a call statement that drops the error the generator returns
Discard(r) == [r EXCEPT !.err = "nil"]

\* the arms of the switch whose generators this model does not enter: the
\* claimable-balance and clawback generators.  No operation of the model's
\* inputs has one of these kinds
LaterGenerators ==
    [CreateClaimableBalance |-> "addCreateClaimableBalanceEffects",
     ClaimClaimableBalance |-> "addClaimClaimableBalanceEffects",
     Clawback |-> "addClawbackEffects",
     ClawbackClaimableBalance |-> "addClawbackClaimableBalanceEffects"]

\* a switch whose every arm is empty and that has no default arm
DispatchNothing(o, ord) == Ran(<<>>, Appended(<<>>))

\* the switch on operation.OperationType() in effects()
Dispatch(o, ord) ==
    LET type == OperationType(o)
    IN  CASE type = "CreateAccount" ->
               Ran(<<"addAccountCreatedEffects">>, addAccountCreatedEffects(o))
          [] type = "Payment" ->
               Ran(<<"addPaymentEffects">>, addPaymentEffects(o))
          [] type = "PathPaymentStrictReceive" ->
               Ran(<<"pathPaymentStrictReceiveEffects">>, pathPaymentStrictReceiveEffects(o))
          [] type = "PathPaymentStrictSend" ->
               Ran(<<"addPathPaymentStrictSendEffects">>, addPathPaymentStrictSendEffects(o))
          [] type = "ManageSellOffer" ->
               Ran(<<"addManageSellOfferEffects">>, addManageSellOfferEffects(o))
          [] type = "ManageBuyOffer" ->
               Ran(<<"addManageBuyOfferEffects">>, addManageBuyOfferEffects(o))
          [] type = "CreatePassiveSellOffer" ->
               Ran(<<"addCreatePassiveSellOfferEffect">>, addCreatePassiveSellOfferEffect(o))
          [] type = "SetOptions" ->
               Ran(<<"addSetOptionsEffects">>, Discard(addSetOptionsEffects(o, ord)))
          [] type = "ChangeTrust" ->
               Ran(<<"addChangeTrustEffects">>, addChangeTrustEffects(o))
          [] type = "AllowTrust" ->
               Ran(<<"addAllowTrustEffects">>, addAllowTrustEffects(o))
          [] type = "SetTrustLineFlags" ->
               Ran(<<"addSetTrustLineFlagsEffects">>, addSetTrustLineFlagsEffects(o))
          [] type = "AccountMerge" ->
               Ran(<<"addAccountMergeEffects">>, addAccountMergeEffects(o))
          [] type = "Inflation" ->
               Ran(<<"addInflationEffects">>, addInflationEffects(o))
          [] type = "ManageData" ->
               Ran(<<"addManageDataEffects">>, addManageDataEffects(o))
          [] type = "BumpSequence" ->
               Ran(<<"addBumpSequenceEffects">>, addBumpSequenceEffects(o))
          [] type \in {"BeginSponsoringFutureReserves", "EndSponsoringFutureReserves",
                       "RevokeSponsorship"} ->
               Ran(<<>>, Appended(<<>>))
          [] type = "LiquidityPoolDeposit" ->
               Ran(<<"addLiquidityPoolDepositEffect">>, addLiquidityPoolDepositEffect(o))
          [] type = "LiquidityPoolWithdraw" ->
               Ran(<<"addLiquidityPoolWithdrawEffect">>, addLiquidityPoolWithdrawEffect(o))
          [] type = "InvokeHostFunction" ->
               \* GetContractEvents reads the meta GetOperationChanges has read
               \* before the switch, so it returns the events and no error
               Ran(<<"addInvokeHostFunctionEffects">>,
                   addInvokeHostFunctionEffects(o, o.transaction.Events))
          [] type = "ExtendFootprintTtl" ->
               Ran(<<"addExtendFootprintTtlEffect">>, addExtendFootprintTtlEffect(o))
          [] type = "RestoreFootprint" ->
               Ran(<<"addRestoreFootprintExpirationEffect">>,
                   addRestoreFootprintExpirationEffect(o))
          [] type \in DOMAIN LaterGenerators ->
               Ran(<<LaterGenerators[type]>>, Appended(<<>>))
          [] OTHER ->
               [known |-> FALSE, generators |-> <<>>, r |-> Failed(<<>>, errUnknownOperationType)]

\* the first loop after the switch: for each change the entry-sponsorship
\* step, whose error ends the call, and then the signer-sponsorship step
RECURSIVE SponsorshipSweepFrom(_, _, _, _, _)
RECURSIVE SponsorshipSweepStep(_, _, _, _, _, _)
SponsorshipSweepFrom(o, changes, i, acc, ord) ==
    IF i > Len(changes) THEN Appended(acc)
    ELSE SponsorshipSweepStep(o, changes, i, acc, ord,
                              addLedgerEntrySponsorshipEffects(o, changes[i]))

\* the body of that loop with the signer-sponsorship step ahead of the
\* entry-sponsorship step
SponsorshipSweepSignersFirst(o, changes, i, acc, ord, r) ==
    IF r.err # "nil" THEN Failed(acc, r.err)
    ELSE SponsorshipSweepFrom(o, changes, i + 1,
           acc \o addSignerSponsorshipEffects(o, changes[i], ord) \o r.effects, ord)

\* the body of that loop for change i, r being what the entry-sponsorship
\* step left behind
SponsorshipSweepStep(o, changes, i, acc, ord, r) ==
    IF r.err # "nil" THEN Failed(acc, r.err)
    ELSE SponsorshipSweepFrom(o, changes, i + 1,
           acc \o r.effects \o addSignerSponsorshipEffects(o, changes[i], ord), ord)

\* the second loop: the liquidity-pool step for each change, its error
\* result dropped
RECURSIVE LiquidityPoolSweepFrom(_, _, _, _)
RECURSIVE LiquidityPoolSweepStep(_, _, _, _, _)
LiquidityPoolSweepFrom(o, changes, i, acc) ==
    IF i > Len(changes) THEN Appended(acc)
    ELSE LiquidityPoolSweepStep(o, changes, i, acc,
                                addLedgerEntryLiquidityPoolEffects(o, changes[i]))

\* the body of that loop for change i, r being what the liquidity-pool step
\* left behind
LiquidityPoolSweepStep(o, changes, i, acc, r) ==
    IF r.panic THEN Panicked
    ELSE LiquidityPoolSweepFrom(o, changes, i + 1, acc \o r.effects)

\* the second loop, entered when the first one, which left s, met no error
LiquidityPoolSweep(o, changes, s) ==
    IF s.err # "nil" THEN s
    ELSE LiquidityPoolSweepFrom(o, changes, 1, s.effects)

\* the two loops in the other order
SweepsPoolFirst(o, changes, acc, ord) ==
    IF LiquidityPoolSweepFrom(o, changes, 1, acc).panic THEN Panicked
    ELSE SponsorshipSweepFrom(o, changes, 1,
                              LiquidityPoolSweepFrom(o, changes, 1, acc).effects, ord)

\* both loops, run on the effects the generator left in the accumulator
Sweeps(o, changes, acc, ord) ==
    LiquidityPoolSweep(o, changes, SponsorshipSweepFrom(o, changes, 1, acc, ord))

\* the final loop with the index counted from one
StampFromOne(o, effs) ==
    [i \in 1..Len(effs) |->
       [effs[i] EXCEPT !.LedgerClosed = o.ledgerClosed,
                       !.LedgerSequence = o.ledgerSequence,
                       !.EffectIndex = i,
                       !.EffectId = ToidString(effs[i].OperationID) \o "-" \o NatString(i)]]

\* the final loop: every accumulated effect gets the ledger's close time and
\* sequence, its index in the list and its composite id "%d-%d"
Stamp(o, effs) ==
    [i \in 1..Len(effs) |->
       [effs[i] EXCEPT !.LedgerClosed = o.ledgerClosed,
                       !.LedgerSequence = o.ledgerSequence,
                       !.EffectIndex = i - 1,
                       !.EffectId = ToidString(effs[i].OperationID) \o "-" \o NatString(i - 1)]]

\* what effects() returns: the list (isNil when it is the nil slice), the
\* error, and whether the call panicked instead of returning
Returned(effs) == [effects |-> effs, isNil |-> FALSE, err |-> "nil", panic |-> FALSE]
Aborted == [effects |-> <<>>, isNil |-> TRUE, err |-> "nil", panic |-> TRUE]

\* return wrapper.effects, err: the accumulator handed out with the error
ReturnPartial(acc, e) == [effects |-> acc, isNil |-> FALSE, err |-> e, panic |-> FALSE]

\* return nil, err: acc is what the accumulator holds at that point
ReturnError(acc, e) == [effects |-> <<>>, isNil |-> TRUE, err |-> e, panic |-> FALSE]

\* what the call did on the way: whether it asked for the operation's
\* changes and which generator functions it called
Trace(read, names) == [changesRead |-> read, generators |-> names]

\* effects() past the sweeps, which left s: the error check inside the
\* first loop, then the stamping
effectsAfterSweeps(o, d, s) ==
    IF s.panic THEN Aborted @@ Trace(TRUE, d.generators)
    ELSE IF s.err # "nil" THEN ReturnError(s.effects, s.err) @@ Trace(TRUE, d.generators)
    ELSE Returned(Stamp(o, s.effects)) @@ Trace(TRUE, d.generators)

\* effects() past the switch, whose arm left d: the default arm's return,
\* the check of the generator's error, then the sweeps
effectsAfterSwitch(o, changes, d, ord) ==
    IF ~d.known THEN ReturnError(<<>>, d.r.err) @@ Trace(TRUE, <<>>)
    ELSE IF d.r.panic THEN Aborted @@ Trace(TRUE, d.generators)
    ELSE IF d.r.err # "nil" THEN ReturnError(d.r.effects, d.r.err) @@ Trace(TRUE, d.generators)
    ELSE effectsAfterSweeps(o, d, Sweeps(o, changes, d.r.effects, ord))

\* effects() past the read of the operation's changes, which answered got
effectsAfterChanges(o, got, ord) ==
    IF got.err # "nil" THEN ReturnError(<<>>, got.err) @@ Trace(TRUE, <<>>)
    ELSE effectsAfterSwitch(o, got.changes, Dispatch(o, ord), ord)

\* effects() past the check of the transaction's success
effectsOfSuccessful(o, ord) ==
    effectsAfterChanges(o, GetOperationChanges(o), ord)

\* effects() without the check of the transaction's success
effectsOfAnyTransaction(o, ord) == effectsOfSuccessful(o, ord)

\* transactionOperationWrapper.effects
effectsOf(o, ord) ==
    IF ~o.transaction.Successful THEN Returned(<<>>) @@ Trace(FALSE, <<>>)
    ELSE effectsOfSuccessful(o, ord)

-----------------------------------------------------------------------------
(* Inputs: the operations, changes and results the model feeds the engine *)

TxSource == Ed("GA")
MuxedSource == Mux("GA", 7)
USD == CreditAsset("USD", "GISSUER")

\* an operation with what the transaction records for it: its changes
\* (GetOperationChanges) and its result (OperationResults)
Op(type, source, body, changes, result) ==
    [Type |-> type, SourceAccount |-> source, Body |-> body,
     Changes |-> changes, Result |-> result]

\* a result of code opInner whose arm `arm` holds its success value
Success(arm, offers, last) ==
    [Code |-> "opInner", Type |-> arm, Success |-> TRUE, Offers |-> offers,
     LastAmount |-> last, SourceAccountBalance |-> 0, Payouts |-> <<>>]

\* a result of code opInner whose arm `arm` holds a failure code and no
\* success value
Failure(arm) == [Success(arm, <<>>, 0) EXCEPT !.Success = FALSE]

NoBody == [Unused |-> TRUE]

AccountData(id, signers, signerSponsors, seq) ==
    [AccountId |-> id, Signers |-> signers, SignerSponsors |-> signerSponsors, SeqNum |-> seq]

PoolData(id, body, a, b, shares) ==
    [LiquidityPoolId |-> id, BodyType |-> body, AssetA |-> NativeAsset, AssetB |-> USD,
     Fee |-> 30, ReserveA |-> a, ReserveB |-> b, TotalPoolShares |-> shares,
     PoolSharesTrustLineCount |-> 1]

BalanceData(valid) ==
    [BalanceId |-> [Valid |-> valid, Hex |-> "00000000ab"], Asset |-> USD, Amount |-> 5]

K1 == LexOrder[1]
K2 == LexOrder[2]

\* changes of a pool the trades of the operation went through
PoolUpdated ==
    Change("liquidity_pool",
           Some(Entry("liquidity_pool", None, PoolData("POOL1", "constant_product", 100, 200, 50))),
           Some(Entry("liquidity_pool", None, PoolData("POOL1", "constant_product", 110, 190, 50))))

\* the changes the sweeps are exercised with
SweepChanges ==
    { \* an account that gains a sponsor
      Change("account",
             Some(Entry("account", None, AccountData("GB", EmptyMap, EmptyMap, 1))),
             Some(Entry("account", Some("GS1"), AccountData("GB", EmptyMap, EmptyMap, 1)))),
      \* an account whose two sponsored signers lose and change their sponsor
      Change("account",
             Some(Entry("account", None, AccountData("GC", EmptyMap, (K1 :> "GS1" @@ K2 :> "GS1"), 1))),
             Some(Entry("account", None, AccountData("GC", EmptyMap, (K1 :> "GS2"), 1)))),
      \* a new account with two sponsored signers
      Change("account",
             None,
             Some(Entry("account", None, AccountData("GD", EmptyMap, (K1 :> "GS1" @@ K2 :> "GS2"), 1)))),
      \* an account with a sponsored signer that gains an earlier one
      Change("account",
             Some(Entry("account", None, AccountData("GE", EmptyMap, (K2 :> "GS1"), 1))),
             Some(Entry("account", None, AccountData("GE", EmptyMap, (K1 :> "GS2" @@ K2 :> "GS1"), 1)))),
      \* a sponsored trustline is created
      Change("trustline",
             None,
             Some(Entry("trustline", Some("GS1"), [AccountId |-> "GB", Asset |-> USD]))),
      \* a sponsored data entry is removed
      Change("data",
             Some(Entry("data", Some("GS1"), [AccountId |-> "GA", DataName |-> "k", DataValue |-> "v"])),
             None),
      \* a data entry changes its sponsor
      Change("data",
             Some(Entry("data", Some("GS1"), [AccountId |-> "GA", DataName |-> "n", DataValue |-> "v"])),
             Some(Entry("data", Some("GS2"), [AccountId |-> "GA", DataName |-> "n", DataValue |-> "w"]))),
      \* a sponsored claimable balance is created
      Change("claimable_balance",
             None,
             Some(Entry("claimable_balance", Some("GS1"), BalanceData(TRUE)))),
      \* the same with a balance id that cannot be encoded
      Change("claimable_balance",
             None,
             Some(Entry("claimable_balance", Some("GS1"), BalanceData(FALSE)))),
      \* a pool is created
      Change("liquidity_pool",
             None,
             Some(Entry("liquidity_pool", None, PoolData("POOL2", "constant_product", 10, 20, 5)))),
      \* a pool is removed
      Change("liquidity_pool",
             Some(Entry("liquidity_pool", None, PoolData("POOL3", "constant_product", 0, 0, 0))),
             None),
      \* a sponsored offer is created
      Change("offer",
             None,
             Some(Entry("offer", Some("GS1"), [SellerId |-> "GA", OfferId |-> 4]))) }

\* the claimed offers the trade pass is exercised with
Claim(type, sold, bought) ==
    [Type |-> type, SellerId |-> "GSELLER", OfferId |-> 77, LiquidityPoolId |-> "POOL1",
     AssetSold |-> USD, AmountSold |-> sold, AssetBought |-> NativeAsset, AmountBought |-> bought]

ClaimInputs ==
    { Claim("order_book", 0, 0),
      Claim("order_book", 10000000, 25000000),
      Claim("order_book", 0, 3),
      Claim("liquidity_pool", 10, 10) }

ClaimLists == SeqsUpTo(ClaimInputs, MaxClaims)

PaymentBody(dest, asset, amt) == [Destination |-> dest, Asset |-> asset, Amount |-> amt]

PathReceiveBody == [Destination |-> Ed("GB"), DestAsset |-> USD, DestAmount |-> 30000000,
                    SendAsset |-> NativeAsset, SendMax |-> 90000000]
PathSendBody == [Destination |-> Ed("GB"), DestAsset |-> USD, DestMin |-> 1,
                 SendAsset |-> NativeAsset, SendAmount |-> 40000000]

BalanceOps ==
    {Op("CreateAccount", s, [Destination |-> "GB", StartingBalance |-> b], <<>>,
        Success("CreateAccount", <<>>, 0))
       : s \in {None, Some(MuxedSource)}, b \in {1000000000, 1, 123456789}}
    \cup
    {Op("Payment", s, PaymentBody(d, a[1], a[2]), <<>>, Success("Payment", <<>>, 0))
       : s \in {None, Some(MuxedSource)}, d \in {Ed("GB"), Mux("GB", 9)},
         a \in {<<NativeAsset, 50000000>>, <<USD, 1>>}}

TradeOps ==
    {Op(k[1], s, k[3], ch, Success(k[2], cl, 60000000))
       : k \in {<<"ManageSellOffer", "ManageSellOffer", NoBody>>,
                <<"ManageBuyOffer", "ManageBuyOffer", NoBody>>,
                <<"CreatePassiveSellOffer", "CreatePassiveSellOffer", NoBody>>,
                <<"CreatePassiveSellOffer", "ManageSellOffer", NoBody>>,
                <<"PathPaymentStrictReceive", "PathPaymentStrictReceive", PathReceiveBody>>,
                <<"PathPaymentStrictSend", "PathPaymentStrictSend", PathSendBody>>},
         s \in {None}, ch \in {<<>>, <<PoolUpdated>>}, cl \in ClaimLists}
    \cup
    {Op(k[1], Some(MuxedSource), k[2], <<>>,
        Success(k[1], <<Claim("v0", 10000000, 25000000)>>, 60000000))
       : k \in {<<"ManageSellOffer", NoBody>>,
                <<"PathPaymentStrictReceive", PathReceiveBody>>,
                <<"PathPaymentStrictSend", PathSendBody>>}}

\* a claim against an offer that was paid `bought` of the given asset
ClaimBuying(asset, bought) ==
    [Claim("order_book", 10000000, bought) EXCEPT !.AssetBought = asset]

\* path payments through two offers: both paid in the asset sent, or the
\* second one paid in another asset
PathOps ==
    {Op(k[1], None, k[2], <<>>, Success(k[1], cl, 60000000))
       : k \in {<<"PathPaymentStrictReceive", PathReceiveBody>>,
                <<"PathPaymentStrictSend", PathSendBody>>},
         cl \in {<<ClaimBuying(NativeAsset, 20000000), ClaimBuying(NativeAsset, 5000000)>>,
                 <<ClaimBuying(NativeAsset, 20000000), ClaimBuying(USD, 7)>>}}

\* operations of a successful transaction whose recorded result lacks the
\* success value their generator reads
ArmlessOps ==
    {Op(k[1], None, k[2], <<>>, Failure(k[1]))
       : k \in {<<"PathPaymentStrictReceive", PathReceiveBody>>,
                <<"PathPaymentStrictSend", PathSendBody>>,
                <<"ManageSellOffer", NoBody>>,
                <<"AccountMerge", [Destination |-> Ed("GB")]>>}}

SignerMaps ==
    {EmptyMap, (K1 :> 1), (K2 :> 1), (K1 :> 1 @@ K2 :> 1), (K1 :> 2 @@ K2 :> 3)}

SetOptionsBodies ==
    { [HomeDomain |-> None, LowThreshold |-> None, MedThreshold |-> None,
       HighThreshold |-> None, SetFlags |-> None, ClearFlags |-> None,
       InflationDest |-> None],
      [HomeDomain |-> Some("example.org"), LowThreshold |-> Some(1), MedThreshold |-> None,
       HighThreshold |-> Some(3), SetFlags |-> Some(3), ClearFlags |-> Some(8),
       InflationDest |-> Some("GB")] }

SetOptionsOps ==
    {Op("SetOptions", None, b,
        <<Change("account",
                 Some(Entry("account", None, AccountData("GA", m1, EmptyMap, 1))),
                 Some(Entry("account", None, AccountData("GA", m2, EmptyMap, 1))))>>,
        Success("SetOptions", <<>>, 0))
       : b \in SetOptionsBodies, m1 \in SignerMaps, m2 \in SignerMaps}
    \cup
    {Op("SetOptions", None, b, <<c>>, Success("SetOptions", <<>>, 0))
       : b \in SetOptionsBodies, c \in SweepChanges}

\* operations whose effects come from the sweeps: one kind without a
\* generator and one with, over every short sequence of changes
SweepOps ==
    {Op(k[1], None, k[2], ch, Success(k[1], <<>>, 0))
       : k \in {<<"RevokeSponsorship", NoBody>>,
                <<"Payment", PaymentBody(Ed("GB"), NativeAsset, 50000000)>>},
         ch \in SeqsUpTo(SweepChanges, MaxChanges)}

\* one change of each sponsorable entry kind, and of an offer, for every
\* pair of states before and after: the entry absent, present without a
\* sponsor, or present with one
SponsorChanges ==
    {Change(k[1],
            IF pre = "absent" THEN None
            ELSE Some(Entry(k[1], IF pre = "unsponsored" THEN None ELSE Some(pre), k[2])),
            IF post = "absent" THEN None
            ELSE Some(Entry(k[1], IF post = "unsponsored" THEN None ELSE Some(post), k[2])))
       : k \in {<<"account", AccountData("GB", EmptyMap, EmptyMap, 1)>>,
                <<"trustline", [AccountId |-> "GB", Asset |-> USD]>>,
                <<"data", [AccountId |-> "GA", DataName |-> "k", DataValue |-> "v"]>>,
                <<"claimable_balance", BalanceData(TRUE)>>,
                <<"offer", [SellerId |-> "GA", OfferId |-> 4]>>},
         pre \in {"absent", "unsponsored", "GS1"},
         post \in {"absent", "unsponsored", "GS1", "GS2"}}
    \ {Change(t, None, None) : t \in {"account", "trustline", "data", "claimable_balance", "offer"}}

SponsorOps ==
    {Op("RevokeSponsorship", None, NoBody, <<c>>, Success("RevokeSponsorship", <<>>, 0))
       : c \in SponsorChanges}

\* the passphrase TransformEffect is called with
TestNetwork == "Test SDF Network"

\* the two sides an event may name: an account, a contract
AccountSide(a) == [Type |-> "account", Address |-> a]
ContractSide(c) == [Type |-> "contract", Address |-> c]
NoSide == [Type |-> "none", Address |-> ""]

\* an event of kind `type` that the contract of `asset` on the network of
\* the call emitted, and one that another contract emitted
HostEvent(type, asset, from, to, amt) ==
    [ContractId |-> AssetContractId(asset, TestNetwork), Type |-> type, Asset |-> asset,
     From |-> from, To |-> to, Amount |-> amt]
ForeignEvent(type, asset, from, to, amt) ==
    [HostEvent(type, asset, from, to, amt) EXCEPT !.ContractId = "CFOREIGN"]

\* the events the host-function generator is exercised with
HostEvents ==
    {HostEvent("transfer", NativeAsset, AccountSide("GA"), AccountSide("GB"), 50000000),
     HostEvent("transfer", USD, AccountSide("GA"), ContractSide("CTOKEN"), 1),
     HostEvent("transfer", USD, ContractSide("CTOKEN"), AccountSide("GB"), 20000000),
     HostEvent("mint", USD, NoSide, AccountSide("GB"), 30000000),
     HostEvent("clawback", USD, AccountSide("GA"), NoSide, 5),
     HostEvent("burn", USD, ContractSide("CTOKEN"), NoSide, 70000000),
     ForeignEvent("transfer", USD, AccountSide("GA"), AccountSide("GB"), 9),
     HostEvent("approve", USD, AccountSide("GA"), AccountSide("GB"), 9)}
OtherHostEvents ==
    {HostEvent("transfer", USD, ContractSide("CTOKEN"), ContractSide("CPOOL"), 4),
     HostEvent("mint", USD, NoSide, ContractSide("CTOKEN"), 4),
     HostEvent("clawback", USD, ContractSide("CTOKEN"), NoSide, 4),
     HostEvent("burn", USD, AccountSide("GA"), NoSide, 4)}

\* a second issued asset of the type of USD
EUR == CreditAsset("EUR", "GISSUER")

\* the shares of a pool as the line of a change-trust operation, with the
\* parameters of the pool (PoolId stands for the id they hash to), and as
\* the asset of a trustline
PoolShareLine ==
    [Type |-> "pool_share", LiquidityPool |-> [Type |-> "constant_product", PoolId |-> "POOL1"]]
PoolShareAsset == [Type |-> "pool_share", LiquidityPoolId |-> "POOL1"]

TrustLineChange(asset, pre, post) ==
    Change("trustline",
           IF pre THEN Some(Entry("trustline", None, [AccountId |-> "GA", Asset |-> asset]))
           ELSE None,
           IF post THEN Some(Entry("trustline", None, [AccountId |-> "GA", Asset |-> asset]))
           ELSE None)

\* the changes the change-trust generator is exercised with: a trustline
\* to USD created, updated and removed, a trustline to EUR updated, a
\* trustline to pool shares created, a trustline change with neither
\* state, and a change of another entry kind
TrustChanges ==
    {TrustLineChange(USD, FALSE, TRUE), TrustLineChange(USD, TRUE, TRUE),
     TrustLineChange(USD, TRUE, FALSE), TrustLineChange(EUR, TRUE, TRUE),
     TrustLineChange(PoolShareAsset, FALSE, TRUE), TrustLineChange(USD, FALSE, FALSE),
     Change("account",
            Some(Entry("account", None, AccountData("GA", EmptyMap, EmptyMap, 1))),
            Some(Entry("account", None, AccountData("GA", EmptyMap, EmptyMap, 1))))}

ChangeTrustOps ==
    {Op("ChangeTrust", None, [Line |-> line, Limit |-> 1000000000], ch,
        Success("ChangeTrust", <<>>, 0))
       : line \in {USD, PoolShareLine}, ch \in SeqsUpTo(TrustChanges, MaxChanges)}

\* a claimable balance of the given asset
BalanceOf(asset, hex, valid) ==
    [BalanceId |-> [Valid |-> valid, Hex |-> hex], Asset |-> asset, Amount |-> 5]

BalanceCreated(asset, hex, valid) ==
    Change("claimable_balance", None,
           Some(Entry("claimable_balance", None, BalanceOf(asset, hex, valid))))

\* the pool of the native asset and USD gives out a fifth of what it holds
PoolRevoked ==
    Change("liquidity_pool",
           Some(Entry("liquidity_pool", None, PoolData("POOL1", "constant_product", 100, 200, 50))),
           Some(Entry("liquidity_pool", None, PoolData("POOL1", "constant_product", 80, 160, 40))))

\* the claimable balances a revocation may create: one of each asset of the
\* pool, a second one of USD, one of another asset, one whose id cannot be
\* encoded
CreatedBalances ==
    {BalanceCreated(USD, "00000000ab", TRUE), BalanceCreated(NativeAsset, "00000000cd", TRUE),
     BalanceCreated(USD, "00000000ef", TRUE), BalanceCreated(EUR, "00000000aa", TRUE),
     BalanceCreated(USD, "", FALSE)}

\* the changes the revocation step is exercised with: those, the change of
\* the pool, the change of a pool with another body, a claimable balance
\* that is removed
RevocationChanges ==
    CreatedBalances \cup
    {PoolRevoked,
     Change("liquidity_pool",
            Some(Entry("liquidity_pool", None, PoolData("POOL1", "other", 100, 200, 50))),
            Some(Entry("liquidity_pool", None, PoolData("POOL1", "other", 80, 160, 40)))),
     Change("claimable_balance",
            Some(Entry("claimable_balance", None, BalanceOf(USD, "00000000ab", TRUE))), None)}

\* every short sequence of them, and the change of the pool followed by
\* every short sequence of created balances
RevocationChangeLists ==
    SeqsUpTo(RevocationChanges, MaxChanges)
      \cup {<<PoolRevoked>> \o s : s \in SeqsUpTo(CreatedBalances, MaxChanges)}

AllowTrustOp(source, authorize, changes) ==
    Op("AllowTrust", source,
       [Trustor |-> "GB", Asset |-> [Type |-> "credit_alphanum4", Code |-> "USD"],
        Authorize |-> authorize],
       changes, Success("AllowTrust", <<>>, 0))

\* allow-trust with every authorization and no change, and the one that
\* revokes with the change of the pool, alone and followed by a balance of
\* each of its assets
AllowTrustOps ==
    {AllowTrustOp(s, a, <<>>) : s \in {None, Some(MuxedSource)}, a \in 0..3}
      \cup {AllowTrustOp(s, 0, ch)
               : s \in {None, Some(MuxedSource)},
                 ch \in {<<PoolRevoked>>,
                         <<PoolRevoked, BalanceCreated(USD, "00000000ab", TRUE),
                           BalanceCreated(NativeAsset, "00000000cd", TRUE)>>}}

SetTrustLineFlagsOp(setFlags, clearFlags, changes) ==
    Op("SetTrustLineFlags", None,
       [Trustor |-> "GB", Asset |-> USD, SetFlags |-> setFlags, ClearFlags |-> clearFlags],
       changes, Success("SetTrustLineFlags", <<>>, 0))

\* set-trustline-flags with several pairs of flags and no change, and the
\* one that clears both authorization flags with every list of changes
SetTrustLineFlagsOps ==
    {SetTrustLineFlagsOp(f[1], f[2], <<>>)
       : f \in {<<0, 0>>, <<1, 0>>, <<0, 3>>, <<4, 2>>, <<2, 5>>}}
      \cup {SetTrustLineFlagsOp(0, 3, ch) : ch \in RevocationChangeLists}

\* a new account that has a sponsor and a sponsored signer, and an account
\* that gains a sponsor
SponsoredAccountCreated ==
    Change("account", None,
           Some(Entry("account", Some("GS1"), AccountData("GF", EmptyMap, (K1 :> "GS2"), 1))))
SponsorGained ==
    Change("account",
           Some(Entry("account", None, AccountData("GB", EmptyMap, EmptyMap, 1))),
           Some(Entry("account", Some("GS1"), AccountData("GB", EmptyMap, EmptyMap, 1))))

\* operations whose changes feed both sponsorship steps
SignerSponsorOps ==
    {Op("RevokeSponsorship", None, NoBody, ch, Success("RevokeSponsorship", <<>>, 0))
       : ch \in SeqsUpTo({SponsoredAccountCreated, SponsorGained}, MaxChanges) \ {<<>>}}

DataChange(pre, post) ==
    Change("data",
           IF pre THEN Some(Entry("data", None, [AccountId |-> "GA", DataName |-> "k", DataValue |-> "old"]))
           ELSE None,
           IF post THEN Some(Entry("data", None, [AccountId |-> "GA", DataName |-> "k", DataValue |-> "new"]))
           ELSE None)

SeqChange(a, b) ==
    Change("account",
           Some(Entry("account", None, AccountData("GA", EmptyMap, EmptyMap, a))),
           Some(Entry("account", None, AccountData("GA", EmptyMap, EmptyMap, b))))

TtlChange == Change("ttl", None, Some(Entry("ttl", None, [KeyHash |-> "h1"])))

OtherOps ==
    {Op(k, None, NoBody, <<>>, Success(k, <<>>, 0))
       : k \in {"BeginSponsoringFutureReserves", "EndSponsoringFutureReserves", "Unknown"}}
    \cup
    {Op("AccountMerge", s, [Destination |-> Mux("GB", 9)], <<>>,
        [Success("AccountMerge", <<>>, 0) EXCEPT !.SourceAccountBalance = 70000000])
       : s \in {None, Some(MuxedSource)}}
    \cup
    {Op("Inflation", None, NoBody, <<>>,
        [Success("Inflation", <<>>, 0) EXCEPT !.Payouts = p])
       : p \in {<<>>, <<[Destination |-> "GB", Amount |-> 5]>>,
                <<[Destination |-> "GB", Amount |-> 5], [Destination |-> "GC", Amount |-> 6]>>}}
    \cup
    {Op("ManageData", None, [DataName |-> "k"], ch, Success("ManageData", <<>>, 0))
       : ch \in {<<>>, <<DataChange(FALSE, TRUE)>>, <<DataChange(TRUE, FALSE)>>,
                 <<DataChange(TRUE, TRUE)>>, <<SeqChange(1, 1), DataChange(TRUE, TRUE)>>,
                 <<DataChange(FALSE, FALSE)>>, <<SeqChange(1, 1), DataChange(FALSE, FALSE)>>}}
    \cup
    {Op("BumpSequence", None, NoBody, ch, Success("BumpSequence", <<>>, 0))
       : ch \in {<<>>, <<SeqChange(1, 9)>>, <<SeqChange(4, 4)>>}}
    \cup
    {Op(k, None, [LiquidityPoolId |-> id], ch, Success(k, <<>>, 0))
       : k \in {"LiquidityPoolDeposit", "LiquidityPoolWithdraw"}, id \in {"POOL1", "POOL2"},
         ch \in {<<>>, <<PoolUpdated>>}}
    \cup
    {Op(k, None, [ExtendTo |-> 1000], ch, Success(k, <<>>, 0))
       : k \in {"ExtendFootprintTtl", "RestoreFootprint"},
         ch \in {<<>>, <<TtlChange>>, <<TtlChange, DataChange(TRUE, FALSE)>>}}

OpInputs == BalanceOps \cup TradeOps \cup SetOptionsOps \cup SweepOps \cup OtherOps
            \cup PathOps \cup ArmlessOps \cup SponsorOps \cup ChangeTrustOps
            \cup AllowTrustOps \cup SetTrustLineFlagsOps \cup SignerSponsorOps

\* the operations that transactions of several operations are built from
PairOps ==
    { Op("CreateAccount", None, [Destination |-> "GB", StartingBalance |-> 1000000000], <<>>,
         Success("CreateAccount", <<>>, 0)),
      Op("Payment", Some(MuxedSource), PaymentBody(Mux("GB", 9), USD, 1), <<>>,
         Success("Payment", <<>>, 0)),
      Op("ManageSellOffer", None, NoBody, <<>>,
         Success("ManageSellOffer",
                 <<Claim("order_book", 10000000, 25000000), Claim("liquidity_pool", 10, 10)>>, 0)),
      Op("RevokeSponsorship", None, NoBody,
         <<Change("claimable_balance", None,
                  Some(Entry("claimable_balance", Some("GS1"), BalanceData(FALSE))))>>,
         Success("RevokeSponsorship", <<>>, 0)),
      Op("Unknown", None, NoBody, <<>>, Success("Unknown", <<>>, 0)),
      Op("EndSponsoringFutureReserves", None, NoBody, <<>>,
         Success("EndSponsoringFutureReserves", <<>>, 0)) }

\* the close time of the ledger header as int64(TimePoint): one that
\* converts, and one past the range of int64, which reads as negative
CloseTimes == {1600000000, -1}

\* a transaction as TransformEffect receives it, with the other arguments
\* of the call: the ledger sequence, the close time of the ledger's
\* header, the network passphrase.  Events are the contract events of its
\* meta (GetContractEvents)
Tx(index, successful, metaOk, closeTime, ops) ==
    [Index |-> index, Successful |-> successful, MetaOk |-> metaOk,
     Source |-> TxSource, Operations |-> ops, Events |-> <<>>,
     LedgerSeq |-> 5, CloseTime |-> closeTime, Network |-> TestNetwork]

\* a transaction of one invoke-host-function operation with its events
HostTx(source, network, events) ==
    [Tx(1, TRUE, TRUE, 1600000000,
        <<Op("InvokeHostFunction", source, NoBody, <<>>, Success("InvokeHostFunction", <<>>, 0))>>)
       EXCEPT !.Network = network, !.Events = events]

\* every short list of events under the passphrase of the network, and
\* under a multiplexed source, an empty passphrase or a failed transaction
\* the events one by one
HostTxs ==
    {HostTx(None, TestNetwork, evs) : evs \in SeqsUpTo(HostEvents, MaxEvents)}
      \cup {HostTx(None, TestNetwork, <<e>>) : e \in OtherHostEvents}
      \cup {HostTx(Some(MuxedSource), TestNetwork, <<e>>) : e \in HostEvents \cup OtherHostEvents}
      \cup {HostTx(None, "", <<e>>) : e \in HostEvents}
      \cup {[HostTx(None, TestNetwork, <<e>>) EXCEPT !.Successful = FALSE] : e \in HostEvents}

TxInputs ==
    {Tx(1, TRUE, TRUE, 1600000000, <<op>>) : op \in OpInputs}
    \cup
    HostTxs
    \cup
    {Tx(i, s, m, c, ops)
       : i \in 1..2, s \in BOOLEAN, m \in BOOLEAN, c \in CloseTimes,
         ops \in {x \in SeqsUpTo(PairOps, MaxOps) : Len(x) > 0}}

\* the orders in which the runtime may visit the keys of the two maps a
\* function ranges over
Orders == [a : Permutations2(SignerKeys), b : Permutations2(SignerKeys)]

-----------------------------------------------------------------------------
(* TransformEffect as a state machine *)

\* pc       where the caller and TransformEffect stand: "idle" before a
\*          call, "loop" inside the loop over the operations, "returned"
\*          after the return, "panic" when the process was aborted,
\*          "fatal" when the logger ended it, "finished" after the export
\* tx       the transaction of the current call, with the call's arguments
\* opi      the loop variable of TransformEffect
\* effects  the list TransformEffect accumulates and returns
\* err      the error TransformEffect returns
\* ret      what the last call of operation.effects() returned, for the
\*          operation of index ret.index
\* transactions  the transactions the export command ranges over
\* ti       how many of them the loop of the command has taken up
\* outFile  the entries written to the output file
\* results  the ExportResults of the command
\* logged   the errors handed to the logger
\* strict   cmdLogger.StrictExport
\* lookup   the last lookup of a pool delta in the transaction tx: who made
\*          it, with which arguments, and what it returned

NoTx == Tx(0, FALSE, FALSE, 0, <<>>)
NoLookup == [by |-> "", index |-> 0, lpID |-> None, result |-> LPResult(None, ZeroDelta, "nil")]
NoReturn == (Returned(<<>>) @@ Trace(FALSE, <<>>)) @@ [called |-> FALSE, index |-> 0]

\* ExportResults{NumAttempts: n}
ExportResults(n) == [NumAttempts |-> n, NumFailures |-> 0]

\* the engine before a call, under a caller that is no export command
Init ==
    /\ pc = "idle"
    /\ tx = NoTx
    /\ opi = 0
    /\ effects = <<>>
    /\ err = "nil"
    /\ ret = NoReturn
    /\ transactions = <<>>
    /\ ti = 0
    /\ outFile = <<>>
    /\ results = ExportResults(0)
    /\ logged = <<>>
    /\ strict = FALSE
    /\ lookup = NoLookup

\* errors.Wrapf(err, "reading operation %v effects", operation.ID())
Wrapf(e, o) == "reading operation " \o ToidString(ID(o)) \o " effects: " \o e

\* the caller invokes TransformEffect: the close time is read, and its
\* error ends the call before any operation is looked at
TransformEffectCall(t) ==
    /\ pc = "idle"
    /\ tx' = t
    /\ opi' = 0
    /\ effects' = <<>>
    /\ ret' = NoReturn
    /\ IF GetCloseTime(t.CloseTime).err # "nil"
       THEN pc' = "returned" /\ err' = GetCloseTime(t.CloseTime).err
       ELSE pc' = "loop" /\ err' = "nil"

\* one turn of the loop: effects() on operation opi, under the order ord in
\* which the runtime visits map keys during the call
OperationEffects(ord) ==
    /\ pc = "loop"
    /\ opi < Len(tx.Operations)
    /\ \E o \in {Wrapper(tx, opi)} :
         \E p \in {effectsOf(o, ord)} :
           /\ ret' = p @@ [called |-> TRUE, index |-> opi]
           /\ IF p.panic
              THEN pc' = "panic" /\ UNCHANGED <<opi, effects, err>>
              ELSE IF p.err # "nil"
              THEN pc' = "returned" /\ err' = Wrapf(p.err, o) /\ UNCHANGED <<opi, effects>>
              ELSE effects' = effects \o p.effects /\ opi' = opi + 1 /\ UNCHANGED <<pc, err>>
    /\ UNCHANGED tx
    /\ UNCHANGED <<exportVars, lookup>>

\* the loop has run through every operation
TransformEffectReturn ==
    /\ pc = "loop"
    /\ opi = Len(tx.Operations)
    /\ pc' = "returned"
    /\ UNCHANGED <<tx, opi, effects, err, ret>>
    /\ UNCHANGED <<exportVars, lookup>>

\* the caller has taken the result and turns to the next transaction
CallerContinues ==
    /\ pc = "returned"
    /\ pc' = "idle"
    /\ tx' = NoTx
    /\ opi' = 0
    /\ effects' = <<>>
    /\ err' = "nil"
    /\ ret' = NoReturn
    /\ UNCHANGED <<exportVars, lookup>>

Next ==
    \/ \E t \in TxInputs : TransformEffectCall(t) /\ UNCHANGED <<exportVars, lookup>>
    \/ \E ord \in Orders : OperationEffects(ord)
    \/ TransformEffectReturn
    \/ CallerContinues

Spec == Init /\ [][Next]_vars

-----------------------------------------------------------------------------
(* The export command (effectsCmd) around TransformEffect *)

\* the transactions the export command is exercised with: one that yields
\* two effects, one whose second operation is of an unknown kind, one of a
\* ledger whose close time cannot be read, one that failed, and one whose
\* recorded result lacks the success value
ExportTxs ==
    LET pay == Op("Payment", None, PaymentBody(Ed("GB"), NativeAsset, 50000000), <<>>,
                  Success("Payment", <<>>, 0))
        unknown == Op("Unknown", None, NoBody, <<>>, Success("Unknown", <<>>, 0))
        armless == Op("AccountMerge", None, [Destination |-> Ed("GB")], <<>>,
                      Failure("AccountMerge"))
    IN  { Tx(1, TRUE, TRUE, 1600000000, <<pay>>),
          Tx(1, TRUE, TRUE, 1600000000, <<pay, unknown>>),
          Tx(1, TRUE, TRUE, -1, <<pay>>),
          Tx(1, FALSE, TRUE, 1600000000, <<pay>>),
          Tx(1, TRUE, TRUE, 1600000000, <<armless>>) }

\* input.GetTransactions: the transactions of the range, each with its
\* place in the ledger as its index
ExportBatches ==
    {[i \in 1..Len(s) |-> [s[i] EXCEPT !.Index = i]] : s \in SeqsUpTo(ExportTxs, MaxBatch)}

\* the command before its loop: the transactions read, the output file
\* opened empty, the attempts counted
ExportInit ==
    /\ pc = "idle"
    /\ tx = NoTx
    /\ opi = 0
    /\ effects = <<>>
    /\ err = "nil"
    /\ ret = NoReturn
    /\ transactions \in ExportBatches
    /\ ti = 0
    /\ outFile = <<>>
    /\ results = ExportResults(Len(transactions))
    /\ logged = <<>>
    /\ strict \in BOOLEAN
    /\ lookup = NoLookup

\* fmt.Errorf("could not transform effects for transaction %d in ledger %d: %v", ...)
TransformErrorMessage(txIndex, ledgerSeq, e) ==
    "could not transform effects for transaction " \o NatString(txIndex)
      \o " in ledger " \o NatString(ledgerSeq) \o ": " \o e

\* fmt.Errorf("could not export effect: %v", err), err being what
\* ExportEntry returns when the write fails
ExportErrorMessage == "could not export effect: error writing entry to file"

\* EtlLogger.LogError: under strict export the error is fatal and ends the
\* process, otherwise it is logged and the caller goes on
LogErrorExits == strict

\* a check of the returned error that never finds one
NeverFailed(e) == FALSE

\* if err != nil, on what TransformEffect returned
TransformFailed(e) == e # "nil"

\* the entries of a list that were written, failed being the places of the
\* entries whose write failed
Written(entries, failed) ==
    LET kept == SelectSeq([i \in 1..Len(entries) |-> i], LAMBDA i : i \notin failed)
    IN  [j \in 1..Len(kept) |-> entries[kept[j]]]

\* the loop of the command takes up the next transaction and calls
\* TransformEffect on it
ExportTransaction ==
    /\ ti < Len(transactions)
    /\ TransformEffectCall(transactions[ti + 1])
    /\ ti' = ti + 1
    /\ UNCHANGED <<transactions, outFile, results, logged, strict, lookup>>

\* the rest of the loop body for a transaction whose TransformEffect
\* returned an error: the error is logged and, unless that ends the
\* process, counted, and the loop continues without a write
ExportFailure ==
    /\ pc = "returned"
    /\ TransformFailed(err)
    /\ logged' = Append(logged, TransformErrorMessage(tx.Index, tx.LedgerSeq, err))
    /\ IF LogErrorExits
       THEN pc' = "fatal" /\ UNCHANGED results
       ELSE pc' = "idle" /\ results' = [results EXCEPT !.NumFailures = @ + 1]
    /\ UNCHANGED <<tx, opi, effects, err, ret, transactions, ti, outFile, strict, lookup>>

\* the rest of the loop body for a transaction whose TransformEffect
\* returned no error: ExportEntry on each effect, failed being the places
\* of the effects whose write fails
ExportEffects(failed) ==
    /\ pc = "returned"
    /\ ~TransformFailed(err)
    /\ IF LogErrorExits /\ failed # {}
       THEN /\ pc' = "fatal"
            /\ outFile' = outFile \o SubSeq(effects, 1,
                             (CHOOSE f \in failed : \A g \in failed : f <= g) - 1)
            /\ logged' = Append(logged, ExportErrorMessage)
            /\ UNCHANGED results
       ELSE /\ pc' = "idle"
            /\ outFile' = outFile \o Written(effects, failed)
            /\ logged' = logged \o [i \in 1..Cardinality(failed) |-> ExportErrorMessage]
            /\ results' = [results EXCEPT !.NumFailures = @ + Cardinality(failed)]
    /\ UNCHANGED <<tx, opi, effects, err, ret, transactions, ti, strict, lookup>>

\* PrintTransformStats: the counters FinishExport reports
PrintTransformStats(attempts, failures) ==
    [attempted_transforms |-> attempts,
     failed_transforms |-> failures,
     successful_transforms |-> attempts - failures]

\* the loop has run through every transaction: FinishExport
FinishExport ==
    /\ pc = "idle"
    /\ ti = Len(transactions)
    /\ pc' = "finished"
    /\ UNCHANGED <<tx, opi, effects, err, ret>>
    /\ UNCHANGED <<exportVars, lookup>>

ExportNext ==
    \/ ExportTransaction
    \/ \E ord \in Orders : OperationEffects(ord)
    \/ TransformEffectReturn
    \/ ExportFailure
    \/ \E failed \in SUBSET (1..Len(effects)) : ExportEffects(failed)
    \/ FinishExport

ExportSpec == ExportInit /\ [][ExportNext]_vars

-----------------------------------------------------------------------------
(* The two lookups of a pool delta, called on their own *)

\* pool changes: a pool whose reserves change, a pool that is created, one
\* that is removed, a second change of the first pool, a pool with another
\* body, and a change of another entry kind
PoolChanges ==
    {PoolUpdated,
     Change("liquidity_pool", None,
            Some(Entry("liquidity_pool", None, PoolData("POOL2", "constant_product", 10, 20, 5)))),
     Change("liquidity_pool",
            Some(Entry("liquidity_pool", None, PoolData("POOL2", "constant_product", 7, 9, 3))),
            None),
     Change("liquidity_pool",
            Some(Entry("liquidity_pool", None, PoolData("POOL1", "constant_product", 110, 190, 50))),
            Some(Entry("liquidity_pool", None, PoolData("POOL1", "constant_product", 0, 0, 0)))),
     Change("liquidity_pool",
            Some(Entry("liquidity_pool", None, PoolData("POOL1", "other", 1, 1, 1))),
            Some(Entry("liquidity_pool", None, PoolData("POOL1", "other", 2, 2, 2)))),
     TrustLineChange(USD, TRUE, TRUE)}

\* transactions of one operation over every short sequence of them, with
\* and without readable meta
LookupTxs ==
    {Tx(1, TRUE, m, 1600000000,
        <<Op("LiquidityPoolDeposit", None, [LiquidityPoolId |-> "POOL1"], ch,
             Success("LiquidityPoolDeposit", <<>>, 0))>>)
       : m \in BOOLEAN, ch \in SeqsUpTo(PoolChanges, MaxChanges)}

\* the pool asked for: none (nil), or one of two pools
PoolIdArguments == {None, Some("POOL1"), Some("POOL2")}

\* the transaction at hand is any of those
LookupInit ==
    /\ pc = "idle"
    /\ tx \in LookupTxs
    /\ opi = 0
    /\ effects = <<>>
    /\ err = "nil"
    /\ ret = NoReturn
    /\ transactions = <<>>
    /\ ti = 0
    /\ outFile = <<>>
    /\ results = ExportResults(0)
    /\ logged = <<>>
    /\ strict = FALSE
    /\ lookup = NoLookup

\* a call of the method of the wrapper of the first operation
LookupByWrapper(lpID) ==
    /\ lookup' = [by |-> "wrapper", index |-> 0, lpID |-> lpID,
                  result |-> getLiquidityPoolAndProductDelta(Wrapper(tx, 0), lpID)]
    /\ UNCHANGED <<pc, tx, opi, effects, err, ret, exportVars>>

\* a call of the free function for the first operation
LookupByFunction(lpID) ==
    /\ lookup' = [by |-> "function", index |-> 0, lpID |-> lpID,
                  result |-> getLiquidityPoolAndProductDeltaOf(0, tx, lpID)]
    /\ UNCHANGED <<pc, tx, opi, effects, err, ret, exportVars>>

LookupNext ==
    \/ \E lpID \in PoolIdArguments : LookupByWrapper(lpID)
    \/ \E lpID \in PoolIdArguments : LookupByFunction(lpID)

LookupSpec == LookupInit /\ [][LookupNext]_vars

-----------------------------------------------------------------------------
(* The two resolutions of a sponsor, called on their own *)

\* an account of GB with the given sponsors of its signers
SignersOf(sponsor, signerSponsors) ==
    Some(Entry("account", sponsor, AccountData("GB", EmptyMap, signerSponsors, 1)))

\* the changes sponsor resolution is exercised with
SponsorScanChanges ==
    { \* a signer of an account gains a sponsor
      Change("account", SignersOf(None, EmptyMap), SignersOf(None, (K1 :> "GS1"))),
      \* it passes to another sponsor
      Change("account", SignersOf(None, (K1 :> "GS1")), SignersOf(None, (K1 :> "GS2"))),
      \* it keeps its sponsor, on an account that has a sponsor itself
      Change("account", SignersOf(Some("GS3"), (K1 :> "GS1")),
                        SignersOf(Some("GS3"), (K1 :> "GS1"))),
      \* a sponsored account is created with a sponsored signer
      Change("account", None, SignersOf(Some("GS3"), (K2 :> "GS2"))),
      \* an account is created without a sponsor
      Change("account", None, SignersOf(None, EmptyMap)),
      \* a sponsored trustline is created
      Change("trustline", None,
             Some(Entry("trustline", Some("GS1"), [AccountId |-> "GB", Asset |-> USD]))),
      \* a sponsored trustline is updated
      Change("trustline",
             Some(Entry("trustline", Some("GS2"), [AccountId |-> "GB", Asset |-> USD])),
             Some(Entry("trustline", Some("GS2"), [AccountId |-> "GB", Asset |-> USD]))),
      \* a sponsored data entry is removed
      Change("data",
             Some(Entry("data", Some("GS1"), [AccountId |-> "GA", DataName |-> "k", DataValue |-> "v"])),
             None) }

\* a set-options without a signer and with each of two, and an operation of
\* another kind
SponsorOperations ==
    {<<"SetOptions", [Signer |-> s]>> : s \in {None, Some([Key |-> K1]), Some([Key |-> K2])}}
      \cup {<<"ChangeTrust", [Line |-> USD, Limit |-> 1000000000]>>}

\* transactions of one such operation over every short sequence of the
\* changes, with and without readable meta
SponsorTxs ==
    {Tx(1, TRUE, m, 1600000000, <<Op(k[1], None, k[2], ch, Success(k[1], <<>>, 0))>>)
       : m \in BOOLEAN, k \in SponsorOperations, ch \in SeqsUpTo(SponsorScanChanges, MaxChanges)}

\* the transaction at hand is any of those
SponsorInit ==
    /\ pc = "idle"
    /\ tx \in SponsorTxs
    /\ opi = 0
    /\ effects = <<>>
    /\ err = "nil"
    /\ ret = NoReturn
    /\ transactions = <<>>
    /\ ti = 0
    /\ outFile = <<>>
    /\ results = ExportResults(0)
    /\ logged = <<>>
    /\ strict = FALSE
    /\ lookup = NoLookup

\* a call of the method of the wrapper of the first operation
SponsorByWrapper ==
    /\ lookup.by = ""
    /\ lookup' = [by |-> "wrapper", index |-> 0, lpID |-> None,
                  result |-> getSponsor(Wrapper(tx, 0))]
    /\ UNCHANGED <<pc, tx, opi, effects, err, ret, exportVars>>

\* a call of the free function for the first operation
SponsorByFunction ==
    /\ lookup.by = ""
    /\ lookup' = [by |-> "function", index |-> 0, lpID |-> None,
                  result |-> getSponsorOf(tx.Operations[1], tx, 0)]
    /\ UNCHANGED <<pc, tx, opi, effects, err, ret, exportVars>>

SponsorNext ==
    \/ SponsorByWrapper
    \/ SponsorByFunction

SponsorSpec == SponsorInit /\ [][SponsorNext]_vars

-----------------------------------------------------------------------------

(* Checkpoints of the history archive (internal/utils) *)

\* a uint32 is kept as two limbs of sixteen bits, value hi * Limb + lo
Limb == 65536

\* checkpoints are made every 64 ledgers
CheckpointFrequency == 64

U32(hi, lo) == [hi |-> hi, lo |-> lo]

ZeroU32 == U32(0, 0)

\* a + n in uint32, for n below Limb: the carry leaves the high limb at 2^32
AddU32(a, n) ==
    U32((a.hi + ((a.lo + n) \div Limb)) % Limb, (a.lo + n) % Limb)

\* a - n in uint32, for n below Limb: the borrow wraps below zero
SubU32(a, n) ==
    IF a.lo >= n THEN U32(a.hi, a.lo - n)
    ELSE U32((a.hi + Limb - 1) % Limb, a.lo + Limb - n)

\* a % n, for n below Limb
ModU32(a, n) == (((a.hi % n) * (Limb % n)) + a.lo) % n

\* a > b
GreaterU32(a, b) == a.hi > b.hi \/ (a.hi = b.hi /\ a.lo > b.lo)

errCheckpointAfterMax == "the checkpoint ledger is greater than the max ledger number"

CheckpointResult(checkpoint, e) == [checkpoint |-> checkpoint, err |-> e]

\* GetCheckpointNum(seq, maxSeq)
GetCheckpointNum(seq, maxSeq) ==
    LET remainder == ModU32(AddU32(seq, 1), CheckpointFrequency)
        checkpoint == SubU32(AddU32(seq, CheckpointFrequency), remainder)
    IN  IF remainder = 0 THEN CheckpointResult(seq, "nil")
        ELSE IF GreaterU32(checkpoint, maxSeq) THEN CheckpointResult(ZeroU32, errCheckpointAfterMax)
        ELSE CheckpointResult(checkpoint, "nil")

\* GetMostRecentCheckpoint(seq)
GetMostRecentCheckpoint(seq) ==
    LET remainder == ModU32(AddU32(seq, 1), CheckpointFrequency)
    IN  IF remainder = 0 THEN seq ELSE SubU32(seq, remainder)

\* how far from a multiple of the frequency the sequence numbers lie
MaxNear == 2

\* low limbs within MaxNear of the first, the second, the third and the last
\* multiple of the frequency of a limb
NearCheckpointLimbs ==
    {((k * CheckpointFrequency) + Limb + d) % Limb
       : k \in {0, 1, 2}, d \in (0 - MaxNear - 1)..MaxNear}

\* sequence numbers at the bottom, in the middle and at the top of uint32
LedgerSequences == {U32(hi, lo) : hi \in {0, 1, Limb - 1}, lo \in NearCheckpointLimbs}

\* the arguments of the call at hand are any two of those
CheckpointInit ==
    /\ pc = "idle"
    /\ tx = NoTx
    /\ opi = 0
    /\ effects = <<>>
    /\ err = "nil"
    /\ ret = NoReturn
    /\ transactions = <<>>
    /\ ti = 0
    /\ outFile = <<>>
    /\ results = ExportResults(0)
    /\ logged = <<>>
    /\ strict = FALSE
    /\ lookup \in {[by |-> "", seq |-> s, maxSeq |-> m, result |-> CheckpointResult(ZeroU32, "nil")]
                     : s \in LedgerSequences, m \in LedgerSequences}

\* a call of GetCheckpointNum
CallGetCheckpointNum ==
    /\ lookup.by = ""
    /\ lookup' = [lookup EXCEPT !.by = "GetCheckpointNum",
                                !.result = GetCheckpointNum(lookup.seq, lookup.maxSeq)]
    /\ UNCHANGED <<pc, tx, opi, effects, err, ret, exportVars>>

\* a call of GetMostRecentCheckpoint
CallGetMostRecentCheckpoint ==
    /\ lookup.by = ""
    /\ lookup' = [lookup EXCEPT !.by = "GetMostRecentCheckpoint",
                                !.result = CheckpointResult(GetMostRecentCheckpoint(lookup.seq), "nil")]
    /\ UNCHANGED <<pc, tx, opi, effects, err, ret, exportVars>>

CheckpointNext ==
    \/ CallGetCheckpointNum
    \/ CallGetMostRecentCheckpoint

CheckpointSpec == CheckpointInit /\ [][CheckpointNext]_vars

-----------------------------------------------------------------------------

(* Properties of effects(), read off the last call (ret) and its input *)

\* the operation the last call of effects() was made on
CalledOperation == tx.Operations[ret.index + 1]

\* the last call of effects() returned a list and no error
Derived == ret.called /\ ~ret.panic /\ ret.err = "nil"

\* the last call of effects() returned an error
Erred == ret.called /\ ~ret.panic /\ ret.err # "nil"

\* C1: for an operation of any kind, known to the switch or not, whose
\* transaction is not successful, effects() returns an empty list and no
\* error, and it reads neither the operation's changes nor, through a
\* generator, its result
C1_FailedTransactionYieldsNothing ==
    (ret.called /\ ~tx.Successful) =>
        /\ ret.effects = <<>>
        /\ ret.err = "nil"
        /\ ~ret.panic
        /\ ~ret.changesRead
        /\ ret.generators = <<>>

\* an operation of a kind outside the enumeration, in a failed transaction
\* whose changes cannot be read, has been derived
C1_Witness ==
    /\ ret.called
    /\ ~tx.Successful
    /\ ~tx.MetaOk
    /\ CalledOperation.Type \notin OperationTypes
    /\ ret.effects = <<>>

\* the most effects one operation of the model's inputs can yield
MaxEffects == 8 * MaxClaims + 3 * MaxChanges + 8

\* "%d-%d" of an operation id and an index
EffectIdOf(id, i) == ToidString(id) \o "-" \o NatString(i)

\* C2: in every list effects() returns, the i-th effect (from 0) has
\* EffectIndex i and EffectId "<OperationID>-<i>"; hence the ids of the
\* effects TransformEffect has gathered for the transaction are pairwise
\* distinct, and no id of the list is the id of an effect at any other
\* (transaction, operation) position of the ledger
C2_IndexAndIdentifier ==
    /\ Derived =>
         \A i \in 1..Len(ret.effects) :
           /\ ret.effects[i].EffectIndex = i - 1
           /\ ret.effects[i].EffectId =
                EffectIdOf(ToidNew(tx.LedgerSeq, tx.Index, ret.index + 1), i - 1)
    /\ \A i, j \in 1..Len(effects) :
         i # j => effects[i].EffectId # effects[j].EffectId
    /\ Derived =>
         \A t \in 1..2, p \in 1..MaxOps, k \in 0..MaxEffects :
           (t # tx.Index \/ p # ret.index + 1) =>
             \A i \in 1..Len(ret.effects) :
               ret.effects[i].EffectId # EffectIdOf(ToidNew(tx.LedgerSeq, t, p), k)

\* the second operation of a transaction has yielded several effects, after
\* a first one that yielded some too
C2_Witness ==
    /\ Derived
    /\ ret.index = 1
    /\ Len(ret.effects) >= 3
    /\ Len(effects) > Len(ret.effects)
    /\ ret.effects[3].EffectId = "21474844674-2"

\* C3: effects() is all-or-nothing: when reading the changes, the generator
\* or a sweep step reports an error, the call returns that error and the nil
\* list, never the effects gathered before the error
C3_AllOrNothing ==
    /\ Erred => ret.effects = <<>> /\ ret.isNil
    /\ (ret.called /\ tx.Successful /\ ~tx.MetaOk) =>
         Erred /\ ret.err = errOperationMeta

\* a sweep step has failed on the changes of a payment, whose generator had
\* appended its two effects by then
C3_Witness ==
    /\ Erred
    /\ CalledOperation.Type = "Payment"
    /\ ret.generators = <<"addPaymentEffects">>
    /\ ret.err = errInvalidBalanceId
    /\ ret.effects = <<>>

\* the kinds whose arm of the switch is empty
SponsorshipOperationTypes ==
    {"BeginSponsoringFutureReserves", "EndSponsoringFutureReserves", "RevokeSponsorship"}

\* the generator the switch names for each other kind of the enumeration
GeneratorOf ==
    [CreateAccount |-> "addAccountCreatedEffects",
     Payment |-> "addPaymentEffects",
     PathPaymentStrictReceive |-> "pathPaymentStrictReceiveEffects",
     PathPaymentStrictSend |-> "addPathPaymentStrictSendEffects",
     ManageSellOffer |-> "addManageSellOfferEffects",
     ManageBuyOffer |-> "addManageBuyOfferEffects",
     CreatePassiveSellOffer |-> "addCreatePassiveSellOfferEffect",
     SetOptions |-> "addSetOptionsEffects",
     ChangeTrust |-> "addChangeTrustEffects",
     AllowTrust |-> "addAllowTrustEffects",
     SetTrustLineFlags |-> "addSetTrustLineFlagsEffects",
     AccountMerge |-> "addAccountMergeEffects",
     Inflation |-> "addInflationEffects",
     ManageData |-> "addManageDataEffects",
     BumpSequence |-> "addBumpSequenceEffects",
     LiquidityPoolDeposit |-> "addLiquidityPoolDepositEffect",
     LiquidityPoolWithdraw |-> "addLiquidityPoolWithdrawEffect",
     InvokeHostFunction |-> "addInvokeHostFunctionEffects",
     ExtendFootprintTtl |-> "addExtendFootprintTtlEffect",
     RestoreFootprint |-> "addRestoreFootprintExpirationEffect"] @@ LaterGenerators

SponsorshipEffectTypes ==
    {sponsoringEffectsTable[k][a] :
       k \in DOMAIN sponsoringEffectsTable, a \in {"created", "updated", "removed"}}
    \cup {"EffectSignerSponsorshipCreated", "EffectSignerSponsorshipUpdated",
          "EffectSignerSponsorshipRemoved"}
LifecycleEffectTypes == {"EffectLiquidityPoolCreated", "EffectLiquidityPoolRemoved"}

\* 1 for an effect of a generator, 2 for one of the sponsorship sweep, 3 for
\* one of the liquidity-pool lifecycle sweep
EffectClass(e) ==
    IF e.Type \in LifecycleEffectTypes THEN 3
    ELSE IF e.Type \in SponsorshipEffectTypes THEN 2
    ELSE 1

\* the effects of class k in the list of the last call, in their order and
\* without what the stamping set
Unstamped(e) ==
    [e EXCEPT !.LedgerClosed = ZeroTime, !.LedgerSequence = 0,
              !.EffectIndex = 0, !.EffectId = ""]
ReturnedOfClass(k) ==
    [i \in 1..Len(SelectSeq(ret.effects, LAMBDA e : EffectClass(e) = k)) |->
       Unstamped(SelectSeq(ret.effects, LAMBDA e : EffectClass(e) = k)[i])]

\* what the sponsorship steps, and the lifecycle step, yield for each change
\* on its own, laid end to end in the order of the changes from change i on
RECURSIVE SponsorshipEffectsInOrder(_, _, _)
SponsorshipEffectsInOrder(o, changes, i) ==
    IF i > Len(changes) THEN <<>>
    ELSE addLedgerEntrySponsorshipEffects(o, changes[i]).effects
           \o addSignerSponsorshipEffects(o, changes[i], CHOOSE ord \in Orders : TRUE)
           \o SponsorshipEffectsInOrder(o, changes, i + 1)
RECURSIVE LifecycleEffectsInOrder(_, _, _)
LifecycleEffectsInOrder(o, changes, i) ==
    IF i > Len(changes) THEN <<>>
    ELSE addLedgerEntryLiquidityPoolEffects(o, changes[i]).effects
           \o LifecycleEffectsInOrder(o, changes, i + 1)

\* C5: in the list returned for one operation every effect of the generator
\* precedes every effect of the sponsorship sweep, and these precede every
\* effect of the liquidity-pool lifecycle sweep; the effects of each sweep
\* stand in the order of the changes that produced them
C5_GeneratorThenSweeps ==
    (Derived /\ tx.Successful) =>
        /\ \A i, j \in 1..Len(ret.effects) :
             i < j => EffectClass(ret.effects[i]) <= EffectClass(ret.effects[j])
        /\ ReturnedOfClass(2) =
             SponsorshipEffectsInOrder(Wrapper(tx, ret.index), CalledOperation.Changes, 1)
        /\ ReturnedOfClass(3) =
             LifecycleEffectsInOrder(Wrapper(tx, ret.index), CalledOperation.Changes, 1)

\* a payment whose first change creates a pool and whose second change
\* sponsors an entry: the list holds effects of all three classes
C5_Witness ==
    /\ Derived
    /\ CalledOperation.Type = "Payment"
    /\ Len(CalledOperation.Changes) = 2
    /\ CalledOperation.Changes[1].Type = "liquidity_pool"
    /\ {EffectClass(ret.effects[i]) : i \in 1..Len(ret.effects)} = {1, 2, 3}

\* what the last call left in ret, without the bookkeeping of the loop
LastReturn ==
    [effects |-> ret.effects, isNil |-> ret.isNil, err |-> ret.err, panic |-> ret.panic,
     changesRead |-> ret.changesRead, generators |-> ret.generators]

\* C6: effects() is deterministic: on the same operation, changes and result
\* every run returns the same list with the same details, whatever the
\* order in which the runtime hands out the keys of the signer maps
C6_Deterministic ==
    ret.called =>
        \A ord \in Orders : effectsOf(Wrapper(tx, ret.index), ord) = LastReturn

\* a set-options operation whose account lost both of its signers has been
\* derived, the two removals standing in the order of the keys
C6_Witness ==
    /\ Derived
    /\ CalledOperation.Type = "SetOptions"
    /\ Len(SelectSeq(ret.effects, LAMBDA e : e.Type = "EffectSignerRemoved")) = 2
    /\ ret.effects[Len(ret.effects) - 1].Details.public_key = K1
    /\ ret.effects[Len(ret.effects)].Details.public_key = K2

\* the effects of the generator in the list of the last call
GeneratorEffects == SelectSeq(ret.effects, LAMBDA e : EffectClass(e) = 1)

\* the source of the operation the last call was made on, as an address
CalledSource == ToAccountId(SourceAccount(Wrapper(tx, ret.index)))

\* C7: the create-account generator appends exactly three effects, in this
\* order: AccountCreated on the destination with the starting balance,
\* AccountDebited on the operation's source with the same amount of the
\* native asset, SignerCreated on the destination with the default weight
\* of a master key; a starting balance of 1,000,000,000 raw units reads
\* "100.0000000" in both amounts
C7_CreateAccount ==
    (ret.called /\ tx.Successful /\ tx.MetaOk /\ CalledOperation.Type = "CreateAccount") =>
        /\ Derived
        /\ Len(GeneratorEffects) = 3
        /\ GeneratorEffects[1].Type = "EffectAccountCreated"
        /\ GeneratorEffects[1].Address = CalledOperation.Body.Destination
        /\ DOMAIN GeneratorEffects[1].Details = {"starting_balance"}
        /\ GeneratorEffects[2].Type = "EffectAccountDebited"
        /\ GeneratorEffects[2].Address = CalledSource
        /\ GeneratorEffects[2].Details =
             [asset_type |-> "native",
              amount |-> GeneratorEffects[1].Details.starting_balance]
        /\ GeneratorEffects[3].Type = "EffectSignerCreated"
        /\ GeneratorEffects[3].Address = CalledOperation.Body.Destination
        /\ GeneratorEffects[3].Details =
             [public_key |-> CalledOperation.Body.Destination,
              weight |-> DefaultSignerWeight]
        /\ CalledOperation.Body.StartingBalance = 1000000000 =>
             GeneratorEffects[1].Details.starting_balance = "100.0000000"
        /\ CalledOperation.Body.StartingBalance = 123456789 =>
             GeneratorEffects[1].Details.starting_balance = "12.3456789"
        /\ CalledOperation.Body.StartingBalance = 1 =>
             GeneratorEffects[1].Details.starting_balance = "0.0000001"

\* an account has been created with 1,000,000,000 raw units by an operation
\* with a multiplexed source of its own
C7_Witness ==
    /\ Derived
    /\ CalledOperation.Type = "CreateAccount"
    /\ CalledOperation.Body.StartingBalance = 1000000000
    /\ IsSome(CalledOperation.SourceAccount)
    /\ Len(ret.effects) = 3
    /\ ret.effects[2].Details.amount = "100.0000000"

\* C8: the payment generator appends exactly two effects, AccountCredited on
\* the destination and then AccountDebited on the source, both with the
\* same details, the asset and the amount; 50,000,000 raw units of the
\* native asset read "5.0000000"
C8_Payment ==
    (ret.called /\ tx.Successful /\ tx.MetaOk /\ CalledOperation.Type = "Payment"
       /\ ~Erred) =>
        /\ Derived
        /\ Len(GeneratorEffects) = 2
        /\ GeneratorEffects[1].Type = "EffectAccountCredited"
        /\ GeneratorEffects[1].Address = ToAccountId(CalledOperation.Body.Destination)
        /\ GeneratorEffects[2].Type = "EffectAccountDebited"
        /\ GeneratorEffects[2].Address = CalledSource
        /\ GeneratorEffects[1].Details = GeneratorEffects[2].Details
        /\ GeneratorEffects[1].Details.asset_type = CalledOperation.Body.Asset.Type
        /\ CalledOperation.Body.Asset.Type = "native" =>
             DOMAIN GeneratorEffects[1].Details = {"amount", "asset_type"}
        /\ CalledOperation.Body.Asset.Type # "native" =>
             /\ DOMAIN GeneratorEffects[1].Details =
                  {"amount", "asset_type", "asset_code", "asset_issuer"}
             /\ GeneratorEffects[1].Details.asset_code = CalledOperation.Body.Asset.Code
             /\ GeneratorEffects[1].Details.asset_issuer = CalledOperation.Body.Asset.Issuer
        /\ CalledOperation.Body.Amount = 50000000 =>
             GeneratorEffects[1].Details.amount = "5.0000000"
        /\ CalledOperation.Body.Amount = 1 =>
             GeneratorEffects[1].Details.amount = "0.0000001"

\* 50,000,000 raw units of the native asset have been paid to a multiplexed
\* destination
C8_Witness ==
    /\ Derived
    /\ CalledOperation.Type = "Payment"
    /\ CalledOperation.Body.Amount = 50000000
    /\ CalledOperation.Body.Asset = NativeAsset
    /\ CalledOperation.Body.Destination.Type = "muxed_ed25519"
    /\ Len(ret.effects) = 2
    /\ ret.effects[1].Details = [amount |-> "5.0000000", asset_type |-> "native"]

\* the kinds of operation that run the trade pass outside a path payment
OfferOperationTypes == {"ManageSellOffer", "ManageBuyOffer", "CreatePassiveSellOffer"}

\* type and address of the effects one claim is to yield: none when both
\* amounts are zero, one pool trade on the source for a claim against a
\* pool, else for each kind in order one effect on the buyer and one on the
\* seller, the last kind, OfferCreated, left out when skipCreated holds
TradePassOfClaim(claim, buyer, skipCreated) ==
    IF claim.AmountSold = 0 /\ claim.AmountBought = 0 THEN <<>>
    ELSE IF claim.Type = "liquidity_pool" THEN <<<<"EffectLiquidityPoolTrade", buyer>>>>
    ELSE <<<<"EffectTrade", buyer>>, <<"EffectTrade", claim.SellerId>>,
           <<"EffectOfferUpdated", buyer>>, <<"EffectOfferUpdated", claim.SellerId>>,
           <<"EffectOfferRemoved", buyer>>, <<"EffectOfferRemoved", claim.SellerId>>>>
         \o (IF skipCreated THEN <<>>
             ELSE <<<<"EffectOfferCreated", buyer>>, <<"EffectOfferCreated", claim.SellerId>>>>)

RECURSIVE TradePassOfClaims(_, _, _, _)
TradePassOfClaims(claims, i, buyer, skipCreated) ==
    IF i > Len(claims) THEN <<>>
    ELSE TradePassOfClaim(claims[i], buyer, skipCreated)
           \o TradePassOfClaims(claims, i + 1, buyer, skipCreated)

\* type and address of the effects of the generator from effect i on
GeneratorTypesFrom(i) ==
    [k \in 1..Len(GeneratorEffects) - (i - 1) |->
       <<GeneratorEffects[k + i - 1].Type, GeneratorEffects[k + i - 1].Address>>]

\* C9: in the trade pass of an offer operation, which is no path payment, a
\* claim whose sold and bought amounts are both zero yields no effect and
\* every other claim against an offer yields exactly eight: for each kind
\* in the order Trade, OfferUpdated, OfferRemoved, OfferCreated one effect
\* on the buyer and then one on the seller
C9_TradePass ==
    (Derived /\ tx.Successful /\ CalledOperation.Type \in OfferOperationTypes) =>
        GeneratorTypesFrom(1) =
          TradePassOfClaims(CalledOperation.Result.Offers, 1, CalledSource, FALSE)

\* a buy offer has crossed two claims: the first with both amounts zero, the
\* second against an offer, and the list holds the eight effects of the second
C9_Witness ==
    /\ Derived
    /\ CalledOperation.Type = "ManageBuyOffer"
    /\ Len(CalledOperation.Result.Offers) = 2
    /\ CalledOperation.Result.Offers[1].AmountSold = 0
    /\ CalledOperation.Result.Offers[1].AmountBought = 0
    /\ CalledOperation.Result.Offers[2].Type = "order_book"
    /\ CalledOperation.Result.Offers[2].AmountSold > 0
    /\ Len(ret.effects) = 8
    /\ ret.effects[7].Type = "EffectOfferCreated"
    /\ ret.effects[7].Address = "GA"
    /\ ret.effects[8].Address = "GSELLER"

\* C10: in a path payment, strict-receive or strict-send, the trade pass
\* never yields an OfferCreated effect: after the two effects of the
\* payment, a claim against an offer with an amount that is not zero yields
\* exactly six effects, Trade, OfferUpdated and OfferRemoved on the buyer
\* and on the seller
C10_PathPaymentTradePass ==
    (Derived /\ tx.Successful
       /\ CalledOperation.Type \in {"PathPaymentStrictReceive", "PathPaymentStrictSend"}) =>
        /\ \A i \in 1..Len(ret.effects) : ret.effects[i].Type # "EffectOfferCreated"
        /\ GeneratorTypesFrom(3) =
             TradePassOfClaims(CalledOperation.Result.Offers, 1, CalledSource, TRUE)

\* the same for the strict-send path payment alone
C10_StrictSendTradePass ==
    (Derived /\ tx.Successful /\ CalledOperation.Type = "PathPaymentStrictSend") =>
        /\ \A i \in 1..Len(ret.effects) : ret.effects[i].Type # "EffectOfferCreated"
        /\ GeneratorTypesFrom(3) =
             TradePassOfClaims(CalledOperation.Result.Offers, 1, CalledSource, TRUE)

\* a strict-receive path payment that crossed one offer has been derived,
\* and its list ends with the two OfferCreated effects
C10_Witness ==
    /\ Derived
    /\ CalledOperation.Type = "PathPaymentStrictReceive"
    /\ Len(CalledOperation.Result.Offers) = 1
    /\ Len(ret.effects) = 10
    /\ ret.effects[9].Type = "EffectOfferCreated"
    /\ ret.effects[10].Type = "EffectOfferCreated"

\* the send amount a strict-receive result records: the amount of the last
\* hop when no offer was crossed, else what the leading offers paid in the
\* asset of the first one were paid
RECURSIVE LeadingBought(_, _)
LeadingBought(offers, i) ==
    IF i > Len(offers) \/ offers[i].AssetBought # offers[1].AssetBought THEN 0
    ELSE offers[i].AmountBought + LeadingBought(offers, i + 1)
RecordedSendAmount(result) ==
    IF Len(result.Offers) = 0 THEN result.LastAmount ELSE LeadingBought(result.Offers, 1)

\* C11: both path-payment generators append AccountCredited on the
\* destination first and AccountDebited on the source second, each with the
\* asset of its side; strict-receive credits the operation's fixed
\* destination amount and debits the send amount recorded in the result,
\* strict-send debits the operation's fixed send amount and credits the
\* destination amount recorded in the result
C11_PathPaymentAmounts ==
    (Derived /\ tx.Successful
       /\ CalledOperation.Type \in {"PathPaymentStrictReceive", "PathPaymentStrictSend"}) =>
        /\ Len(GeneratorEffects) >= 2
        /\ GeneratorEffects[1].Type = "EffectAccountCredited"
        /\ GeneratorEffects[1].Address = ToAccountId(CalledOperation.Body.Destination)
        /\ GeneratorEffects[1].Details.asset_type = CalledOperation.Body.DestAsset.Type
        /\ GeneratorEffects[1].Details.asset_code = CalledOperation.Body.DestAsset.Code
        /\ GeneratorEffects[2].Type = "EffectAccountDebited"
        /\ GeneratorEffects[2].Address = CalledSource
        /\ GeneratorEffects[2].Details.asset_type = CalledOperation.Body.SendAsset.Type
        /\ CalledOperation.Type = "PathPaymentStrictReceive" =>
             /\ GeneratorEffects[1].Details.amount =
                  AmountString(CalledOperation.Body.DestAmount)
             /\ GeneratorEffects[2].Details.amount =
                  AmountString(RecordedSendAmount(CalledOperation.Result))
             /\ GeneratorEffects[1].Details.amount = "3.0000000"
        /\ CalledOperation.Type = "PathPaymentStrictSend" =>
             /\ GeneratorEffects[2].Details.amount =
                  AmountString(CalledOperation.Body.SendAmount)
             /\ GeneratorEffects[1].Details.amount =
                  AmountString(CalledOperation.Result.LastAmount)
             /\ GeneratorEffects[2].Details.amount = "4.0000000"
             /\ GeneratorEffects[1].Details.amount = "6.0000000"

\* a strict-receive path payment with a declared maximum of 9 has crossed
\* two offers, the second paid in another asset: 3 is credited, and the 2
\* the first offer was paid are debited
C11_Witness ==
    /\ Derived
    /\ CalledOperation.Type = "PathPaymentStrictReceive"
    /\ CalledOperation.Body.SendMax = 90000000
    /\ Len(CalledOperation.Result.Offers) = 2
    /\ CalledOperation.Result.Offers[2].AssetBought = USD
    /\ ret.effects[1].Details.amount = "3.0000000"
    /\ ret.effects[2].Details.amount = "2.0000000"

\* the kinds whose generator reads the success value of the operation's result
ResultReadingTypes ==
    {"PathPaymentStrictReceive", "PathPaymentStrictSend", "ManageSellOffer",
     "ManageBuyOffer", "CreatePassiveSellOffer", "AccountMerge", "Inflation"}

\* C12: when the result of the operation lacks the success value its
\* generator needs, effects() returns an error and the nil list to the
\* caller, and the process is not aborted
C12_MissingResultArmError ==
    (ret.called /\ tx.Successful /\ tx.MetaOk
       /\ CalledOperation.Type \in ResultReadingTypes
       /\ ~CalledOperation.Result.Success) =>
        /\ ~ret.panic
        /\ pc # "panic"
        /\ ret.err # "nil"
        /\ ret.isNil

\* a strict-receive path payment whose result holds no success value has
\* been derived: the call did not return, the process was aborted
C12_Witness ==
    /\ ret.called
    /\ tx.Successful
    /\ CalledOperation.Type = "PathPaymentStrictReceive"
    /\ CalledOperation.Result.Code = "opInner"
    /\ ~CalledOperation.Result.Success
    /\ ret.panic
    /\ pc = "panic"

\* the sponsor of an entry before and after a change, none when the entry is
\* absent or has no sponsor
SponsorBefore(c) == IF IsSome(c.Pre) THEN Get(c.Pre).Sponsor ELSE None
SponsorAfter(c) == IF IsSome(c.Post) THEN Get(c.Post).Sponsor ELSE None

\* the entry kinds that have sponsorship effects, with their names in the
\* effect types
SponsorableKinds ==
    [account |-> "Account", trustline |-> "Trustline", data |-> "Data",
     claimable_balance |-> "ClaimableBalance"]

\* what the entry-sponsorship step is to yield for one change: the effect
\* type and the sponsors it names
ExpectedEntrySponsorship(c) ==
    LET b == SponsorBefore(c)
        a == SponsorAfter(c)
        name == "Effect" \o SponsorableKinds[c.Type] \o "Sponsorship"
    IN  IF c.Type \notin DOMAIN SponsorableKinds THEN <<>>
        ELSE IF IsNone(b) /\ IsSome(a)
        THEN <<[Type |-> name \o "Created", Sponsors |-> [sponsor |-> Get(a)]]>>
        ELSE IF IsSome(b) /\ IsNone(a)
        THEN <<[Type |-> name \o "Removed", Sponsors |-> [former_sponsor |-> Get(b)]]>>
        ELSE IF IsSome(b) /\ IsSome(a) /\ Get(a) # Get(b)
        THEN <<[Type |-> name \o "Updated",
                Sponsors |-> [former_sponsor |-> Get(b), new_sponsor |-> Get(a)]]>>
        ELSE <<>>

RECURSIVE ExpectedEntrySponsorships(_, _)
ExpectedEntrySponsorships(changes, i) ==
    IF i > Len(changes) THEN <<>>
    ELSE ExpectedEntrySponsorship(changes[i]) \o ExpectedEntrySponsorships(changes, i + 1)

\* the effect types of the entry-sponsorship step
EntrySponsorshipEffectTypes ==
    {"Effect" \o SponsorableKinds[k] \o "Sponsorship" \o a
       : k \in DOMAIN SponsorableKinds, a \in {"Created", "Updated", "Removed"}}

\* the entry-sponsorship effects of the last call in their order, each with
\* its type and the sponsors it names
ReturnedEntrySponsorships ==
    LET es == SelectSeq(ret.effects, LAMBDA e : e.Type \in EntrySponsorshipEffectTypes)
    IN  [i \in 1..Len(es) |->
           [Type |-> es[i].Type,
            Sponsors |-> [k \in DOMAIN es[i].Details
                               \cap {"sponsor", "former_sponsor", "new_sponsor"} |->
                            es[i].Details[k]]]]

\* C13: for each change of kind account, trustline, data or claimable
\* balance the entry-sponsorship step yields at most one effect, decided by
\* the sponsor before and after: none to present gives Created with the new
\* sponsor, present to none gives Removed with the former sponsor, present
\* to another sponsor gives Updated with both, the same sponsor or none on
\* both sides gives nothing; a change of any other kind, an offer included,
\* yields no sponsorship effect
C13_EntrySponsorship ==
    (Derived /\ tx.Successful) =>
        ReturnedEntrySponsorships = ExpectedEntrySponsorships(CalledOperation.Changes, 1)

\* a trustline has passed from one sponsor to another, and the one effect of
\* the call names both
C13_Witness ==
    /\ Derived
    /\ Len(CalledOperation.Changes) = 1
    /\ CalledOperation.Changes[1].Type = "trustline"
    /\ SponsorBefore(CalledOperation.Changes[1]) = Some("GS1")
    /\ SponsorAfter(CalledOperation.Changes[1]) = Some("GS2")
    /\ Len(ret.effects) = 1
    /\ ret.effects[1].Type = "EffectTrustlineSponsorshipUpdated"
    /\ ret.effects[1].Details.former_sponsor = "GS1"
    /\ ret.effects[1].Details.new_sponsor = "GS2"

-----------------------------------------------------------------------------
(* Properties of the export command, read off its state between transactions *)

\* what TransformEffect returns for transaction t: the loop over the
\* operations from operation i on, acc being the effects gathered so far
RECURSIVE TransformEffectFrom(_, _, _)
TransformEffectFrom(t, i, acc) ==
    IF i >= Len(t.Operations) THEN [effects |-> acc, err |-> "nil", panic |-> FALSE]
    ELSE LET o == Wrapper(t, i)
             p == effectsOf(o, CHOOSE ord \in Orders : TRUE)
         IN  IF p.panic THEN [effects |-> <<>>, err |-> "nil", panic |-> TRUE]
             ELSE IF p.err # "nil"
             THEN [effects |-> acc, err |-> Wrapf(p.err, o), panic |-> FALSE]
             ELSE TransformEffectFrom(t, i + 1, acc \o p.effects)
TransformEffectOf(t) ==
    IF GetCloseTime(t.CloseTime).err # "nil"
    THEN [effects |-> <<>>, err |-> GetCloseTime(t.CloseTime).err, panic |-> FALSE]
    ELSE TransformEffectFrom(t, 0, <<>>)

\* the entries of the output file that are effects of the k-th transaction
WrittenOf(k) == SelectSeq(outFile, LAMBDA e : e.OperationID.TransactionOrder = k)

\* how often the logger was handed message m
TimesLogged(m) == Len(SelectSeq(logged, LAMBDA x : x = m))

\* the transactions taken up so far whose derivation failed
FailedSoFar == {k \in 1..ti : TransformEffectOf(transactions[k]).err # "nil"}

\* C14: with strict export off, a transaction whose TransformEffect returns
\* an error is logged once and counted as exactly one failure, and none of
\* the effects returned with the error is written; the loop goes on, and
\* each effect of every other transaction is written unless its own write
\* failed
C14_FailedTransactionSkipped ==
    (~strict /\ pc \in {"idle", "finished"}) =>
        /\ \A k \in FailedSoFar :
             /\ TimesLogged(TransformErrorMessage(k, transactions[k].LedgerSeq,
                                                 TransformEffectOf(transactions[k]).err)) = 1
             /\ WrittenOf(k) = <<>>
        /\ \A k \in (1..ti) \ FailedSoFar :
             LET es == TransformEffectOf(transactions[k]).effects
             IN  WrittenOf(k) = SelectSeq(es, LAMBDA e : e \in Range(WrittenOf(k)))
        /\ Len(logged) = Cardinality(FailedSoFar) + TimesLogged(ExportErrorMessage)
        /\ results.NumFailures = Len(logged)
        /\ results.NumAttempts = Len(transactions)
        /\ pc = "finished" =>
             /\ ti = Len(transactions)
             /\ \A k \in (1..ti) \ FailedSoFar :
                  TimesLogged(ExportErrorMessage) = 0 =>
                    WrittenOf(k) = TransformEffectOf(transactions[k]).effects

\* the export has finished over two transactions with strict export off:
\* the first returned an error together with the two effects of its first
\* operation and counts as the one failure, the second had its two effects
\* written
C14_Witness ==
    /\ pc = "finished"
    /\ ~strict
    /\ Len(transactions) = 2
    /\ TransformEffectOf(transactions[1]).err # "nil"
    /\ Len(TransformEffectOf(transactions[1]).effects) = 2
    /\ results.NumFailures = 1
    /\ Len(logged) = 1
    /\ Len(outFile) = 2
    /\ WrittenOf(2) = outFile

-----------------------------------------------------------------------------
(* Properties of the trustline generators *)

\* the asset of the trustline of a change: of its state after, or of its
\* state before when the trustline was removed
TrustLineAssetOf(c) ==
    IF IsSome(c.Post) THEN Get(c.Post).Data.Asset ELSE Get(c.Pre).Data.Asset

\* the first change of a trustline that `same` relates to the requested
\* line, 0 when there is none
FirstTrustLineChange(changes, line, same(_, _)) ==
    LET S == {i \in 1..Len(changes) :
                /\ changes[i].Type = "trustline"
                /\ IsSome(changes[i].Pre) \/ IsSome(changes[i].Post)
                /\ same(line, TrustLineAssetOf(changes[i]))}
    IN  IF S = {} THEN 0 ELSE CHOOSE i \in S : \A j \in S : i <= j

\* the asset is the line requested; it is of the asset type of the line
IsRequestedLine(line, asset) ==
    IF line.Type = "pool_share"
    THEN asset.Type = "pool_share" /\ asset.LiquidityPoolId = line.LiquidityPool.PoolId
    ELSE asset = line
HasTypeOfRequestedLine(line, asset) == asset.Type = line.Type

\* the effect kind that the states before and after of a change call for
TrustlineEffectOf(c) ==
    IF IsNone(c.Pre) THEN "EffectTrustlineCreated"
    ELSE IF IsNone(c.Post) THEN "EffectTrustlineRemoved"
    ELSE "EffectTrustlineUpdated"

\* the details of a change-trust effect: the limit and the requested line,
\* for pool shares the id of the pool in place of code and issuer
ChangeTrustDetails(body) ==
    IF body.Line.Type = "pool_share"
    THEN [limit |-> AmountString(body.Limit), asset_type |-> "liquidity_pool_shares",
          liquidity_pool_id |-> body.Line.LiquidityPool.PoolId]
    ELSE [limit |-> AmountString(body.Limit), asset_type |-> body.Line.Type,
          asset_code |-> body.Line.Code, asset_issuer |-> body.Line.Issuer]

\* a change-trust operation was derived, and it left no effect when no
\* trustline change is related to the requested line by `same`, else the
\* one effect that the first such change calls for, on the source
ChangeTrustDecidedBy(same(_, _)) ==
    (Derived /\ CalledOperation.Type = "ChangeTrust") =>
        LET k == FirstTrustLineChange(CalledOperation.Changes, CalledOperation.Body.Line, same)
        IN  IF k = 0 THEN GeneratorEffects = <<>>
            ELSE /\ Len(GeneratorEffects) = 1
                 /\ GeneratorEffects[1].Type = TrustlineEffectOf(CalledOperation.Changes[k])
                 /\ GeneratorEffects[1].Address = CalledSource
                 /\ GeneratorEffects[1].Details = ChangeTrustDetails(CalledOperation.Body)

\* C15, as stated: a change-trust operation yields at most one effect, and
\* its kind comes from the first trustline change whose asset is the line
\* requested, created, removed or updated by the presence of the states
\* before and after; trustline changes of any other asset never decide it
C15_ChangeTrustByAsset == ChangeTrustDecidedBy(IsRequestedLine)

\* C15, amended: a change-trust operation yields at most one effect, and its
\* kind comes from the first trustline change whose asset has the asset
\* type of the line requested (credit of four characters, credit of twelve,
\* pool shares); the trustline of another asset of that type decides the
\* effect when its change comes first, and the details always name the
\* line requested
C15_ChangeTrustByAssetType == ChangeTrustDecidedBy(HasTypeOfRequestedLine)

\* a change-trust on USD has been derived from the update of a trustline to
\* EUR followed by the creation of the trustline to USD, and it left a
\* TrustlineUpdated effect that names USD
C15_Witness ==
    /\ Derived
    /\ CalledOperation.Type = "ChangeTrust"
    /\ CalledOperation.Body.Line = USD
    /\ CalledOperation.Changes
         = <<TrustLineChange(EUR, TRUE, TRUE), TrustLineChange(USD, FALSE, TRUE)>>
    /\ Len(ret.effects) = 1
    /\ ret.effects[1].Type = "EffectTrustlineUpdated"
    /\ ret.effects[1].Details.asset_code = "USD"

\* the three trustline flags by the key the details name them with
FlagOfKey ==
    [authorized_flag |-> TrustLineFlagsAuthorizedFlag,
     authorized_to_maintain_liabilites |-> TrustLineFlagsAuthorizedToMaintainLiabilitiesFlag,
     clawback_enabled_flag |-> TrustLineFlagsTrustlineClawbackEnabledFlag]

\* the flags an operation sets and the flags it clears: allow-trust sets the
\* one flag it names, or else clears both authorization flags
FlagsSet(op) ==
    IF op.Type = "SetTrustLineFlags" THEN op.Body.SetFlags
    ELSE IF op.Body.Authorize % 2 = 1 THEN 1
    ELSE IF op.Body.Authorize \div 2 = 1 THEN 2 ELSE 0
FlagsCleared(op) ==
    IF op.Type = "SetTrustLineFlags" THEN op.Body.ClearFlags
    ELSE IF op.Body.Authorize = 0 THEN 3 ELSE 0

\* the flag details the operation calls for: true for a flag it sets,
\* false for a flag it clears, nothing for any other flag
ExpectedFlagDetails(op) ==
    [k \in {x \in DOMAIN FlagOfKey :
              HasFlag(FlagsSet(op), FlagOfKey[x]) \/ HasFlag(FlagsCleared(op), FlagOfKey[x])}
       |-> HasFlag(FlagsSet(op), FlagOfKey[k])]

\* the flag details of an effect
FlagDetailsOf(e) ==
    [k \in DOMAIN e.Details \cap DOMAIN FlagOfKey |-> e.Details[k]]

\* the TrustlineFlagsUpdated effects of the last call
FlagsUpdatedEffects ==
    SelectSeq(GeneratorEffects, LAMBDA e : e.Type = "EffectTrustlineFlagsUpdated")

\* C16, as stated: allow-trust and set-trustline-flags leave one
\* TrustlineFlagsUpdated effect, the first of the list, whose flag details
\* hold exactly the flags the operation set (true) or cleared (false), and
\* after it only what the revocation sweep emits
C16_OneFlagsEffectThenRevocation ==
    (Derived /\ CalledOperation.Type \in {"AllowTrust", "SetTrustLineFlags"}) =>
        /\ Len(FlagsUpdatedEffects) = 1
        /\ GeneratorEffects[1].Type = "EffectTrustlineFlagsUpdated"
        /\ FlagDetailsOf(GeneratorEffects[1]) = ExpectedFlagDetails(CalledOperation)
        /\ \A i \in 2..Len(GeneratorEffects) :
             GeneratorEffects[i].Type
               \in {"EffectClaimableBalanceCreated", "EffectLiquidityPoolRevoked"}

\* an allow-trust that authorizes has been derived and left two
\* TrustlineFlagsUpdated effects, the first one without any flag
C16_Witness ==
    /\ Derived
    /\ CalledOperation.Type = "AllowTrust"
    /\ CalledOperation.Body.Authorize = 1
    /\ CalledOperation.Changes = <<>>
    /\ Len(ret.effects) = 2
    /\ ret.effects[1].Type = "EffectTrustlineFlagsUpdated"
    /\ ret.effects[2].Type = "EffectTrustlineFlagsUpdated"
    /\ FlagDetailsOf(ret.effects[1]) = EmptyMap
    /\ FlagDetailsOf(ret.effects[2]) = [authorized_flag |-> TRUE]

-----------------------------------------------------------------------------
(* Properties of the revocation sweep *)

\* what the revocation sweep left in the list of the last call: the
\* effects of the generator past the TrustlineFlagsUpdated ones
RevocationEffects ==
    SelectSeq(GeneratorEffects, LAMBDA e : e.Type # "EffectTrustlineFlagsUpdated")

\* the claimable balances the changes create, in the order of the changes
NewBalances(changes) ==
    LET created == SelectSeq(changes, LAMBDA c : /\ c.Type = "claimable_balance"
                                                   /\ IsNone(c.Pre) /\ IsSome(c.Post))
    IN  [i \in 1..Len(created) |-> Get(created[i].Post).Data]

\* the canonical names of the assets of the model in canonical asset order:
\* the native asset, then issued assets by code
CanonicalAssetOrder == <<"native", "EUR:GISSUER", "USD:GISSUER">>
CanonicalRank(name) == CHOOSE i \in 1..Len(CanonicalAssetOrder) : CanonicalAssetOrder[i] = name

\* the id of the balance that matches an asset: of the last balance of that
\* asset among those created
MatchingBalanceId(cbs, name) ==
    LET S == {i \in 1..Len(cbs) : StringCanonical(cbs[i].Asset) = name}
    IN  cbs[CHOOSE i \in S : \A j \in S : j <= i].BalanceId.Hex

\* the entry of reserves_revoked for one asset of the pool
RevokedReserve(cbs, asset, before, after) ==
    [asset |-> StringCanonical(asset),
     amount |-> AmountString(before - after),
     claimable_balance_id |-> MatchingBalanceId(cbs, StringCanonical(asset))]

\* the list R holds one ClaimableBalanceCreated effect for each of the
\* balances cbs, in canonical asset order, and then one LiquidityPoolRevoked
\* effect for the pool change c
BalancesThenRevoked(R, cbs, c) ==
    LET n == Len(cbs)
    IN  /\ Len(R) = n + 1
        /\ \A i \in 1..n : /\ R[i].Type = "EffectClaimableBalanceCreated"
                           /\ R[i].Address = CalledSource
        /\ \A j \in 1..n :
             Cardinality({i \in 1..n : R[i].Details.balance_id = cbs[j].BalanceId.Hex
                                         /\ R[i].Details.asset = StringCanonical(cbs[j].Asset)})
               = Cardinality({i \in 1..n : cbs[i] = cbs[j]})
        /\ \A i \in 1..(n - 1) :
             CanonicalRank(R[i].Details.asset) <= CanonicalRank(R[i + 1].Details.asset)
        /\ R[n + 1].Type = "EffectLiquidityPoolRevoked"
        /\ R[n + 1].Address = CalledSource
        /\ R[n + 1].Details.liquidity_pool.id = Get(c.Post).Data.LiquidityPoolId
        /\ R[n + 1].Details.shares_revoked
             = AmountString(Get(c.Pre).Data.TotalPoolShares - Get(c.Post).Data.TotalPoolShares)

\* the reserves a LiquidityPoolRevoked effect lists for the pool change c:
\* those of the assets of the pool in `listed`, each with the reserve the
\* pool lost and the id of the matching balance
ReservesListed(e, cbs, c, listed) ==
    LET pre == Get(c.Pre).Data
        post == Get(c.Post).Data
        a == IF StringCanonical(post.AssetA) \in listed
             THEN <<RevokedReserve(cbs, post.AssetA, pre.ReserveA, post.ReserveA)>> ELSE <<>>
        b == IF StringCanonical(post.AssetB) \in listed
             THEN <<RevokedReserve(cbs, post.AssetB, pre.ReserveB, post.ReserveB)>> ELSE <<>>
    IN  e.Details.reserves_revoked = a \o b

\* the names of the assets that have a balance among cbs
AssetsWithBalance(cbs) == {StringCanonical(cbs[i].Asset) : i \in 1..Len(cbs)}

\* the assets of the pool of change c
PoolAssets(c) ==
    {StringCanonical(Get(c.Post).Data.AssetA), StringCanonical(Get(c.Post).Data.AssetB)}

\* the first pool change of the operation of the last call, 0 when none
CalledPoolChange == FirstChangeOfType(CalledOperation.Changes, 1, "liquidity_pool")

\* C17, as stated: when the operation has a pool change, the sweep emits one
\* claimable-balance-created effect per balance the operation created, in
\* canonical asset order, then exactly one LiquidityPoolRevoked effect that
\* lists each asset of the pool with the negated reserve delta and the id
\* of the matching balance, and the negated shares delta; when it has no
\* pool change the sweep emits nothing and the call reports no error
C17_RevocationForEveryPoolChange ==
    (ret.called /\ ~ret.panic /\ tx.Successful /\ tx.MetaOk
       /\ CalledOperation.Type \in {"AllowTrust", "SetTrustLineFlags"}) =>
        IF CalledPoolChange = 0 THEN ret.err = "nil" /\ RevocationEffects = <<>>
        ELSE Derived =>
               /\ BalancesThenRevoked(RevocationEffects, NewBalances(CalledOperation.Changes),
                                      CalledOperation.Changes[CalledPoolChange])
               /\ PoolAssets(CalledOperation.Changes[CalledPoolChange])
                    \subseteq AssetsWithBalance(NewBalances(CalledOperation.Changes))
               /\ ReservesListed(RevocationEffects[Len(RevocationEffects)],
                                 NewBalances(CalledOperation.Changes),
                                 CalledOperation.Changes[CalledPoolChange],
                                 PoolAssets(CalledOperation.Changes[CalledPoolChange]))

\* C17, amended: when the operation has a pool change and created at least
\* one claimable balance, the sweep emits one claimable-balance-created
\* effect per created balance, in canonical asset order, then exactly one
\* LiquidityPoolRevoked effect with the negated shares delta that lists,
\* for each asset of the pool that has a created balance and for no other,
\* the negated reserve delta and the id of the last balance created in that
\* asset; when the operation has no pool change, or has one and created no
\* balance, the sweep emits nothing, and without a pool change the call
\* reports no error
C17_RevocationWithBalances ==
    (ret.called /\ ~ret.panic /\ tx.Successful /\ tx.MetaOk
       /\ CalledOperation.Type \in {"AllowTrust", "SetTrustLineFlags"}) =>
        IF CalledPoolChange = 0 THEN ret.err = "nil" /\ RevocationEffects = <<>>
        ELSE Derived =>
               IF NewBalances(CalledOperation.Changes) = <<>> THEN RevocationEffects = <<>>
               ELSE /\ BalancesThenRevoked(RevocationEffects,
                                           NewBalances(CalledOperation.Changes),
                                           CalledOperation.Changes[CalledPoolChange])
                    /\ ReservesListed(RevocationEffects[Len(RevocationEffects)],
                                      NewBalances(CalledOperation.Changes),
                                      CalledOperation.Changes[CalledPoolChange],
                                      AssetsWithBalance(NewBalances(CalledOperation.Changes)))

\* a set-trustline-flags has been derived whose changes are the pool giving
\* out reserves, a balance created in USD and then one in the native asset:
\* the balance of the native asset comes first, the LiquidityPoolRevoked
\* effect last, with both reserves
C17_Witness ==
    /\ Derived
    /\ CalledOperation.Type = "SetTrustLineFlags"
    /\ CalledOperation.Changes
         = <<PoolRevoked, BalanceCreated(USD, "00000000ab", TRUE),
             BalanceCreated(NativeAsset, "00000000cd", TRUE)>>
    /\ Len(ret.effects) = 4
    /\ ret.effects[2].Type = "EffectClaimableBalanceCreated"
    /\ ret.effects[2].Details.asset = "native"
    /\ ret.effects[3].Details.asset = "USD:GISSUER"
    /\ ret.effects[4].Type = "EffectLiquidityPoolRevoked"
    /\ ret.effects[4].Details.shares_revoked = "0.0000010"
    /\ ret.effects[4].Details.reserves_revoked
         = <<[asset |-> "native", amount |-> "0.0000020", claimable_balance_id |-> "00000000cd"],
             [asset |-> "USD:GISSUER", amount |-> "0.0000040",
              claimable_balance_id |-> "00000000ab"]>>

-----------------------------------------------------------------------------
(* Properties of the order of the sweeps *)

SignerSponsorshipEffectTypes ==
    {"EffectSignerSponsorshipCreated", "EffectSignerSponsorshipUpdated",
     "EffectSignerSponsorshipRemoved"}

\* the sweep step an effect of the last call comes from, "" for an effect of
\* the generator
PassOf(e) ==
    IF e.Type \in EntrySponsorshipEffectTypes THEN "entry"
    ELSE IF e.Type \in SignerSponsorshipEffectTypes THEN "signer"
    ELSE IF e.Type \in LifecycleEffectTypes THEN "lifecycle"
    ELSE ""

\* the steps the effects of the sweeps come from, in the order of the list
ReturnedPasses ==
    LET es == SelectSeq(ret.effects, LAMBDA e : PassOf(e) # "")
    IN  [i \in 1..Len(es) |-> PassOf(es[i])]

\* how many signers of the account of a change gain, lose or change their
\* sponsor
SponsoredSignersChanged(c) ==
    LET pre == IF IsSome(c.Pre) THEN Get(c.Pre).Data.SignerSponsors ELSE EmptyMap
        post == IF IsSome(c.Post) THEN Get(c.Post).Data.SignerSponsors ELSE EmptyMap
        of(m, k) == IF k \in DOMAIN m THEN Some(m[k]) ELSE None
    IN  IF c.Type # "account" THEN 0
        ELSE Cardinality({k \in DOMAIN pre \cup DOMAIN post : of(pre, k) # of(post, k)})

\* the steps of the first loop that yield an effect, change by change from
\* change i on: for each change its entry-sponsorship step and then its
\* signer-sponsorship step, once for every signer concerned
RECURSIVE SponsorshipPasses(_, _)
SponsorshipPasses(changes, i) ==
    IF i > Len(changes) THEN <<>>
    ELSE [j \in 1..Len(ExpectedEntrySponsorship(changes[i])) |-> "entry"]
           \o [j \in 1..SponsoredSignersChanged(changes[i]) |-> "signer"]
           \o SponsorshipPasses(changes, i + 1)

\* the lifecycle steps that yield an effect: one for each pool created or
\* removed
LifecyclePasses(changes) ==
    LET cs == SelectSeq(changes, LAMBDA c : /\ c.Type = "liquidity_pool"
                                              /\ IsNone(c.Pre) # IsNone(c.Post))
    IN  [j \in 1..Len(cs) |-> "lifecycle"]

\* C18, as stated: the three sweeps are three successive passes, so that in
\* the list of an operation every entry-sponsorship effect precedes every
\* signer-sponsorship effect, and these precede every lifecycle effect
C18_ThreeSuccessivePasses ==
    (Derived /\ tx.Successful) =>
        \A i, j \in 1..Len(ReturnedPasses) :
            /\ (ReturnedPasses[i] = "entry" /\ ReturnedPasses[j] = "signer") => i < j
            /\ (ReturnedPasses[i] # "lifecycle" /\ ReturnedPasses[j] = "lifecycle") => i < j

\* C18, amended: the sweeps are two successive passes over the changes.  The
\* first pass runs, for each change in turn, the entry-sponsorship step and
\* then the signer-sponsorship step, so the signer-sponsorship effects of a
\* change precede the entry-sponsorship effect of any later change; the
\* second pass is the liquidity-pool lifecycle step, and every sponsorship
\* effect precedes every lifecycle effect
C18_TwoPassesOverChanges ==
    (Derived /\ tx.Successful) =>
        ReturnedPasses = SponsorshipPasses(CalledOperation.Changes, 1)
                           \o LifecyclePasses(CalledOperation.Changes)

\* an operation has been derived whose first change creates a sponsored
\* account with a sponsored signer and whose second change gives an account
\* a sponsor: the signer-sponsorship effect stands between the two
\* entry-sponsorship effects
C18_Witness ==
    /\ Derived
    /\ CalledOperation.Changes = <<SponsoredAccountCreated, SponsorGained>>
    /\ Len(ret.effects) = 3
    /\ ret.effects[1].Type = "EffectAccountSponsorshipCreated"
    /\ ret.effects[2].Type = "EffectSignerSponsorshipCreated"
    /\ ret.effects[3].Type = "EffectAccountSponsorshipCreated"
    /\ ret.effects[3].Address = "GB"

-----------------------------------------------------------------------------
(* Properties of changes without a state *)

\* a change with neither a state before nor a state after
WithoutState(c) == IsNone(c.Pre) /\ IsNone(c.Post)

\* the generator of the operation comes upon a change without a state: the
\* manage-data generator when the first data change is one, the
\* change-trust generator when a trustline change is one and no trustline
\* change before it has ended the scan
MeetsChangeWithoutState(op) ==
    \/ /\ op.Type = "ManageData"
       /\ FirstChangeOfType(op.Changes, 1, "data") # 0
       /\ WithoutState(op.Changes[FirstChangeOfType(op.Changes, 1, "data")])
    \/ /\ op.Type = "ChangeTrust"
       /\ \E i \in 1..Len(op.Changes) :
            /\ op.Changes[i].Type = "trustline"
            /\ WithoutState(op.Changes[i])
            /\ \A j \in 1..(i - 1) :
                 \/ op.Changes[j].Type # "trustline"
                 \/ /\ ~WithoutState(op.Changes[j])
                    /\ TrustLineAssetOf(op.Changes[j]).Type # op.Body.Line.Type

\* C19: when the change-trust or the manage-data generator comes upon a
\* change with neither a state before nor a state after, effects() returns
\* an error and no list to its caller, and the process is not aborted
C19_InvalidEntryStateError ==
    (ret.called /\ tx.Successful /\ tx.MetaOk /\ MeetsChangeWithoutState(CalledOperation)) =>
        /\ ~ret.panic
        /\ pc # "panic"
        /\ ret.err # "nil"
        /\ ret.isNil

\* the change-trust generator has come upon a trustline change without a
\* state, and the call has ended in a panic
C19_Witness ==
    /\ ret.called
    /\ CalledOperation.Type = "ChangeTrust"
    /\ CalledOperation.Changes = <<TrustLineChange(USD, FALSE, FALSE)>>
    /\ ret.panic
    /\ pc = "panic"

-----------------------------------------------------------------------------
(* Properties of the lookup of a pool delta *)

\* the pool entry a pool change is about: its state after, or its state
\* before when the pool was removed
PoolOf(c) == IF IsSome(c.Post) THEN Get(c.Post).Data ELSE Get(c.Pre).Data

\* the first liquidity-pool change that matches the optional pool id, 0
\* when there is none
FirstMatchingPoolChange(changes, lpID) ==
    LET S == {i \in 1..Len(changes) :
                /\ changes[i].Type = "liquidity_pool"
                /\ IsNone(lpID) \/ PoolOf(changes[i]).LiquidityPoolId = Get(lpID)}
    IN  IF S = {} THEN 0 ELSE CHOOSE i \in S : \A j \in S : i <= j

\* a reserve or the shares of an optional pool state, zero for an absent one
AmountIn(e, field) == IF IsSome(e) THEN Get(e).Data[field] ELSE 0

\* the changes the last lookup ran over
LookedUpChanges == tx.Operations[lookup.index + 1].Changes

\* what the other of the two lookups returns on the arguments of the last
\* lookup
OtherLookup ==
    IF lookup.by = "wrapper"
    THEN getLiquidityPoolAndProductDeltaOf(lookup.index, tx, lookup.lpID)
    ELSE getLiquidityPoolAndProductDelta(Wrapper(tx, lookup.index), lookup.lpID)

\* C20: the lookup of a pool delta returns, for the first liquidity-pool
\* change of the operation that matches the optional pool id, the pool and
\* the three differences after minus before of reserve A, reserve B and
\* total shares, an absent state counting as zeros; an error when the body
\* of that change is not constant-product; and when no pool change matches,
\* the not-found sentinel (the method of the wrapper) or an error of the
\* same text (the free function).  The method and the free function return
\* the same pool and the same differences on every sequence of changes
C20_PoolDeltaLookup ==
    (lookup.by # "" /\ tx.MetaOk) =>
        LET k == FirstMatchingPoolChange(LookedUpChanges, lookup.lpID)
            c == LookedUpChanges[k]
            r == lookup.result
        IN  /\ IF k = 0
               THEN /\ r.err # "nil"
                    /\ lookup.by = "wrapper" <=> r.err = errLiquidityPoolChangeNotFound
                    /\ r.lp = None
               ELSE IF PoolOf(c).BodyType # "constant_product"
               THEN r.err # "nil" /\ r.err # errLiquidityPoolChangeNotFound /\ r.lp = None
               ELSE /\ r.err = "nil"
                    /\ r.lp = Some(PoolOf(c))
                    /\ r.delta =
                         [ReserveA |-> AmountIn(c.Post, "ReserveA") - AmountIn(c.Pre, "ReserveA"),
                          ReserveB |-> AmountIn(c.Post, "ReserveB") - AmountIn(c.Pre, "ReserveB"),
                          TotalPoolShares |-> AmountIn(c.Post, "TotalPoolShares")
                                                - AmountIn(c.Pre, "TotalPoolShares")]
            /\ OtherLookup.lp = r.lp
            /\ OtherLookup.delta = r.delta
            /\ (OtherLookup.err = "nil") = (r.err = "nil")

\* the free function has been asked for the second pool over a change of the
\* first pool followed by the creation of the second: it returned the
\* reserves and shares of the new pool as the differences
C20_Witness ==
    /\ lookup.by = "function"
    /\ lookup.lpID = Some("POOL2")
    /\ Len(LookedUpChanges) = 2
    /\ LookedUpChanges[1] = PoolUpdated
    /\ IsNone(LookedUpChanges[2].Pre)
    /\ lookup.result.err = "nil"
    /\ Get(lookup.result.lp).LiquidityPoolId = "POOL2"
    /\ lookup.result.delta = [ReserveA |-> 10, ReserveB |-> 20, TotalPoolShares |-> 5]

-----------------------------------------------------------------------------
(* Properties of the signer-sponsorship step *)

\* the sponsors of the signers of the account of a change, before and after
SignerSponsorsBefore(c) ==
    IF IsSome(c.Pre) THEN Get(c.Pre).Data.SignerSponsors ELSE EmptyMap
SignerSponsorsAfter(c) ==
    IF IsSome(c.Post) THEN Get(c.Post).Data.SignerSponsors ELSE EmptyMap

\* what the step is to yield for one signer key of an account change: the
\* effect type, the account, the key and the sponsors
ExpectedSignerSponsorship(c, key) ==
    LET before == SignerSponsorsBefore(c)
        after == SignerSponsorsAfter(c)
    IN  IF key \notin DOMAIN before /\ key \in DOMAIN after
        THEN <<[Type |-> "EffectSignerSponsorshipCreated",
                Address |-> Get(c.Post).Data.AccountId,
                Details |-> [signer |-> key, sponsor |-> after[key]]]>>
        ELSE IF key \in DOMAIN before /\ key \notin DOMAIN after
        THEN <<[Type |-> "EffectSignerSponsorshipRemoved",
                Address |-> Get(c.Pre).Data.AccountId,
                Details |-> [signer |-> key, former_sponsor |-> before[key]]]>>
        ELSE IF key \in DOMAIN before /\ key \in DOMAIN after /\ before[key] # after[key]
        THEN <<[Type |-> "EffectSignerSponsorshipUpdated",
                Address |-> Get(c.Post).Data.AccountId,
                Details |-> [signer |-> key, former_sponsor |-> before[key],
                             new_sponsor |-> after[key]]]>>
        ELSE <<>>

\* the same for the keys from the k-th on in lexicographic order, and for
\* the changes from the i-th on in their order
RECURSIVE ExpectedSignerSponsorshipsOfKeys(_, _)
ExpectedSignerSponsorshipsOfKeys(c, k) ==
    IF k > Len(LexOrder) THEN <<>>
    ELSE ExpectedSignerSponsorship(c, LexOrder[k]) \o ExpectedSignerSponsorshipsOfKeys(c, k + 1)

RECURSIVE ExpectedSignerSponsorships(_, _)
ExpectedSignerSponsorships(changes, i) ==
    IF i > Len(changes) THEN <<>>
    ELSE (IF changes[i].Type = "account"
          THEN ExpectedSignerSponsorshipsOfKeys(changes[i], 1) ELSE <<>>)
           \o ExpectedSignerSponsorships(changes, i + 1)

\* the signer-sponsorship effects of the last call in their order
ReturnedSignerSponsorships ==
    LET es == SelectSeq(ret.effects, LAMBDA e : e.Type \in SignerSponsorshipEffectTypes)
    IN  [i \in 1..Len(es) |->
           [Type |-> es[i].Type, Address |-> es[i].Address, Details |-> es[i].Details]]

\* C21: the signer-sponsorship step acts on account changes only; for each
\* signer key sponsored before or after, in lexicographic order of the key,
\* it yields Created when the sponsor appears, Removed when it disappears,
\* Updated when it passes to another sponsor and nothing when the sponsor is
\* the same; each effect is on the changed account, in plain form, and
\* carries the signer key
C21_SignerSponsorship ==
    (Derived /\ tx.Successful) =>
        /\ ReturnedSignerSponsorships = ExpectedSignerSponsorships(CalledOperation.Changes, 1)
        /\ \A i \in 1..Len(ret.effects) :
             ret.effects[i].Type \in SignerSponsorshipEffectTypes =>
                ret.effects[i].AddressMuxed = NullString

\* an account whose two sponsored signers lose and change their sponsor has
\* been swept: the earlier key's Updated precedes the later key's Removed
C21_Witness ==
    /\ Derived
    /\ Len(CalledOperation.Changes) = 1
    /\ CalledOperation.Changes[1].Type = "account"
    /\ SignerSponsorsBefore(CalledOperation.Changes[1]) = (K1 :> "GS1" @@ K2 :> "GS1")
    /\ SignerSponsorsAfter(CalledOperation.Changes[1]) = (K1 :> "GS2")
    /\ Len(ReturnedSignerSponsorships) = 2
    /\ ReturnedSignerSponsorships[1].Type = "EffectSignerSponsorshipUpdated"
    /\ ReturnedSignerSponsorships[1].Details.signer = K1
    /\ ReturnedSignerSponsorships[2].Type = "EffectSignerSponsorshipRemoved"
    /\ ReturnedSignerSponsorships[2].Details.signer = K2
    /\ ReturnedSignerSponsorships[2].Address = "GC"

-----------------------------------------------------------------------------
(* Properties of the liquidity-pool lifecycle step *)

\* what the step is to yield for one change: the effect type and the id of
\* the pool
ExpectedLifecycle(c) ==
    IF c.Type # "liquidity_pool" THEN <<>>
    ELSE IF IsNone(c.Pre) /\ IsSome(c.Post)
    THEN <<[Type |-> "EffectLiquidityPoolCreated", Pool |-> Get(c.Post).Data.LiquidityPoolId]>>
    ELSE IF IsSome(c.Pre) /\ IsNone(c.Post)
    THEN <<[Type |-> "EffectLiquidityPoolRemoved", Pool |-> Get(c.Pre).Data.LiquidityPoolId]>>
    ELSE <<>>

RECURSIVE ExpectedLifecycles(_, _)
ExpectedLifecycles(changes, i) ==
    IF i > Len(changes) THEN <<>>
    ELSE ExpectedLifecycle(changes[i]) \o ExpectedLifecycles(changes, i + 1)

\* the lifecycle effects of the last call in their order
ReturnedLifecycles ==
    LET es == SelectSeq(ret.effects, LAMBDA e : e.Type \in LifecycleEffectTypes)
    IN  [i \in 1..Len(es) |->
           [Type |-> es[i].Type,
            Pool |-> IF es[i].Type = "EffectLiquidityPoolCreated"
                     THEN es[i].Details.liquidity_pool.id
                     ELSE es[i].Details.liquidity_pool_id]]

\* C22: the lifecycle step yields, on the source account of the operation,
\* exactly one LiquidityPoolCreated effect for each pool change with a
\* state after and none before, exactly one LiquidityPoolRemoved effect for
\* each pool change with a state before and none after, and nothing for a
\* pool change with both states or for a change of another kind
C22_PoolLifecycle ==
    (Derived /\ tx.Successful) =>
        /\ ReturnedLifecycles = ExpectedLifecycles(CalledOperation.Changes, 1)
        /\ \A i \in 1..Len(ret.effects) :
             ret.effects[i].Type \in LifecycleEffectTypes =>
                ret.effects[i].Address = CalledSource

\* an operation whose changes remove a pool and then create another has
\* been derived: the removal stands before the creation
C22_Witness ==
    /\ Derived
    /\ Len(CalledOperation.Changes) = 2
    /\ ExpectedLifecycles(CalledOperation.Changes, 1) =
         <<[Type |-> "EffectLiquidityPoolRemoved", Pool |-> "POOL3"],
           [Type |-> "EffectLiquidityPoolCreated", Pool |-> "POOL2"]>>
    /\ ReturnedLifecycles[1].Type = "EffectLiquidityPoolRemoved"
    /\ ReturnedLifecycles[2].Type = "EffectLiquidityPoolCreated"

-----------------------------------------------------------------------------
(* Properties of the create-passive-sell-offer generator *)

\* the result arms a create-passive-sell-offer operation is recorded under
PassiveOfferResultArms == {"ManageSellOffer", "CreatePassiveSellOffer"}

\* the last call was made on a create-passive-sell-offer operation of a
\* successful transaction whose result holds the success value of arm `arm`
PassiveOfferCalledWith(arm) ==
    /\ ret.called
    /\ tx.Successful
    /\ tx.MetaOk
    /\ CalledOperation.Type = "CreatePassiveSellOffer"
    /\ CalledOperation.Result.Code = "opInner"
    /\ CalledOperation.Result.Success
    /\ CalledOperation.Result.Type = arm

\* C23: for a create-passive-sell-offer operation the claimed offers are
\* read from the ManageSellOffer arm when the result carries that tag and
\* from the CreatePassiveSellOffer arm otherwise: under either tag the call
\* does not panic, and the trade pass runs on the claimed offers of the
\* result with the source of the operation as buyer and OfferCreated kept
C23_PassiveSellOfferArms ==
    \A arm \in PassiveOfferResultArms :
        PassiveOfferCalledWith(arm) =>
            /\ ~ret.panic
            /\ Derived =>
                 GeneratorTypesFrom(1) =
                   TradePassOfClaims(CalledOperation.Result.Offers, 1, CalledSource, FALSE)

\* a create-passive-sell-offer whose result is tagged ManageSellOffer has
\* crossed one offer, and the list ends with the two OfferCreated effects
C23_Witness ==
    /\ PassiveOfferCalledWith("ManageSellOffer")
    /\ Derived
    /\ Len(CalledOperation.Result.Offers) = 1
    /\ CalledOperation.Result.Offers[1].Type = "order_book"
    /\ Len(ret.effects) = 8
    /\ ret.effects[7].Type = "EffectOfferCreated"
    /\ ret.effects[7].Address = CalledSource
    /\ ret.effects[8].Type = "EffectOfferCreated"

-----------------------------------------------------------------------------
(* Properties of the host-function generator *)

\* an event of the Stellar Asset Contract: one of its four kinds, emitted by
\* the contract of the asset it names on the network of the call
IsAssetContractEvent(e) ==
    /\ e.Type \in {"transfer", "mint", "clawback", "burn"}
    /\ e.ContractId = AssetContractId(e.Asset, tx.Network)

\* type and address of the effect one side of an event is to yield, way
\* being "Debited" or "Credited": an account effect on the account, or a
\* contract effect on the source of the operation
ExpectedSideEffect(side, way) ==
    IF side.Type = "account" THEN <<"EffectAccount" \o way, side.Address>>
    ELSE <<"EffectContract" \o way, CalledSource>>

ExpectedEventEffects(e) ==
    IF ~IsAssetContractEvent(e) THEN <<>>
    ELSE CASE e.Type = "transfer" ->
                <<ExpectedSideEffect(e.From, "Debited"), ExpectedSideEffect(e.To, "Credited")>>
           [] e.Type = "mint" -> <<ExpectedSideEffect(e.To, "Credited")>>
           [] e.Type \in {"clawback", "burn"} -> <<ExpectedSideEffect(e.From, "Debited")>>

RECURSIVE ExpectedEventsEffects(_, _)
ExpectedEventsEffects(events, i) ==
    IF i > Len(events) THEN <<>>
    ELSE ExpectedEventEffects(events[i]) \o ExpectedEventsEffects(events, i + 1)

-----------------------------------------------------------------------------
(* Properties of the target address *)

\* the accounts the operation of the last call names in a form that may be
\* multiplexed: its source and, for a payment, a path payment or an account
\* merge, its destination
PartiesOf(op) ==
    {SourceAccount(Wrapper(tx, ret.index))}
      \cup (IF op.Type \in {"Payment", "PathPaymentStrictReceive", "PathPaymentStrictSend",
                            "AccountMerge"}
            THEN {op.Body.Destination} ELSE {})

MuxedPartiesOf(op) == {p \in PartiesOf(op) : p.Type = "muxed_ed25519"}

\* the effects attributed to an account that is given by its id, which has
\* no multiplexed form: the account of a changed entry in the sponsorship
\* steps, the new account of create-account, an account side of an event of
\* invoke-host-function
AttributedToAccountId(op, e) ==
    \/ e.Type \in SignerSponsorshipEffectTypes
    \/ e.Type \in {"EffectAccountSponsorship" \o a : a \in {"Created", "Updated", "Removed"}}
    \/ e.Type \in {"EffectTrustlineSponsorship" \o a : a \in {"Created", "Updated", "Removed"}}
    \/ op.Type = "CreateAccount" /\ e.Type \in {"EffectAccountCreated", "EffectSignerCreated"}
    \/ op.Type = "InvokeHostFunction" /\ e.Type \in {"EffectAccountDebited", "EffectAccountCredited"}

\* the annotation an effect is to carry: the M... address of the party it
\* is attributed to when that party is multiplexed, none otherwise
ExpectedAddressMuxed(op, e) ==
    IF AttributedToAccountId(op, e) THEN None
    ELSE IF \E p \in MuxedPartiesOf(op) : p.Ed25519 = e.Address
    THEN Some(MuxedAddress(CHOOSE p \in MuxedPartiesOf(op) : p.Ed25519 = e.Address))
    ELSE None

\* C24: every effect of every returned list has its target address in the
\* plain account form, never the multiplexed form; the multiplexed-address
\* annotation is present exactly when the effect is attributed to an account
\* given in multiplexed form, and it then holds that multiplexed address
C24_PlainTargetAddress ==
    Derived =>
        \A i \in 1..Len(ret.effects) :
            /\ \A p \in MuxedPartiesOf(CalledOperation) :
                 ret.effects[i].Address # MuxedAddress(p)
            /\ ret.effects[i].AddressMuxed =
                 ExpectedAddressMuxed(CalledOperation, ret.effects[i])

\* a payment from a multiplexed source to a multiplexed destination has been
\* derived: the credit and the debit are on the plain addresses and carry
\* the two multiplexed addresses
C24_Witness ==
    /\ Derived
    /\ CalledOperation.Type = "Payment"
    /\ Cardinality(MuxedPartiesOf(CalledOperation)) = 2
    /\ Len(ret.effects) = 2
    /\ ret.effects[1].Address = "GB"
    /\ ret.effects[1].AddressMuxed = Some(MuxedAddress(Mux("GB", 9)))
    /\ ret.effects[2].Address = "GA"
    /\ ret.effects[2].AddressMuxed = Some(MuxedAddress(MuxedSource))

\* an event of invoke-host-function debits the account whose multiplexed
\* form is the source of the operation: the effect carries no annotation
C24_WitnessAccountId ==
    /\ Derived
    /\ CalledOperation.Type = "InvokeHostFunction"
    /\ MuxedPartiesOf(CalledOperation) = {MuxedSource}
    /\ Len(ret.effects) = 1
    /\ ret.effects[1].Type = "EffectAccountDebited"
    /\ ret.effects[1].Address = MuxedSource.Ed25519
    /\ ret.effects[1].AddressMuxed = None

-----------------------------------------------------------------------------
(* Properties of sponsor resolution *)

\* the signer the operation adds: the key of the signer of a set-options,
\* none for a set-options without a signer and for any other operation
AddedSigner(op) ==
    IF op.Type = "SetOptions" /\ IsSome(op.Body.Signer) THEN Some(Get(op.Body.Signer).Key)
    ELSE None

\* the sponsor the signer gains in a change: the one it has after an account
\* change, when it had none or another one before
SignerSponsorGained(signer, c) ==
    LET after == SignerSponsorsAfter(c)
        before == SignerSponsorsBefore(c)
    IN  IF IsNone(signer) \/ c.Type # "account" \/ IsNone(c.Post) THEN None
        ELSE IF Get(signer) \notin DOMAIN after THEN None
        ELSE IF Get(signer) \in DOMAIN before /\ before[Get(signer)] = after[Get(signer)]
        THEN None
        ELSE Some(after[Get(signer)])

\* the sponsor of the entry a change creates
CreatedEntrySponsor(c) ==
    IF IsNone(c.Pre) /\ IsSome(c.Post) THEN Get(c.Post).Sponsor ELSE None

\* the sponsor one change yields: that of the signer first, else that of
\* the created entry
SponsorInChange(signer, c) ==
    IF IsSome(SignerSponsorGained(signer, c)) THEN SignerSponsorGained(signer, c)
    ELSE CreatedEntrySponsor(c)

\* the sponsor of the first change that yields one, none when none does
FirstSponsor(op) ==
    LET S == {i \in 1..Len(op.Changes) : IsSome(SponsorInChange(AddedSigner(op), op.Changes[i]))}
    IN  IF S = {} THEN None
        ELSE SponsorInChange(AddedSigner(op), op.Changes[CHOOSE i \in S : \A j \in S : i <= j])

\* what the other of the two resolutions returns on the arguments of the
\* last one
OtherSponsor ==
    IF lookup.by = "wrapper" THEN getSponsorOf(tx.Operations[lookup.index + 1], tx, lookup.index)
    ELSE getSponsor(Wrapper(tx, lookup.index))

\* C26: sponsor resolution scans the changes of the operation in order and
\* returns the first match: within each change, when the operation is a
\* set-options with a signer, the sponsor that signer key gains or changes
\* to in an account change, and then the sponsoring id of the entry when the
\* change is a creation; when nothing matches it returns no sponsor and no
\* error; the method of the wrapper and the free function return the same
\* on every input
C26_SponsorResolution ==
    lookup.by # "" =>
        /\ tx.MetaOk =>
             /\ lookup.result.err = "nil"
             /\ lookup.result.sponsor = FirstSponsor(tx.Operations[lookup.index + 1])
        /\ OtherSponsor = lookup.result

\* the method has resolved the sponsor of a set-options whose signer keeps
\* its sponsor in the first change and passes to another in the second,
\* after a sponsored trustline was created in between: the first change
\* yields nothing and the creation is the first match
C26_Witness ==
    /\ lookup.by = "wrapper"
    /\ tx.MetaOk
    /\ AddedSigner(tx.Operations[1]) = Some(K1)
    /\ Len(tx.Operations[1].Changes) = 2
    /\ tx.Operations[1].Changes[1].Type = "account"
    /\ SignerSponsorGained(Some(K1), tx.Operations[1].Changes[1]) = None
    /\ CreatedEntrySponsor(tx.Operations[1].Changes[1]) = None
    /\ tx.Operations[1].Changes[2].Type = "trustline"
    /\ lookup.result = SponsorResult(Some("GS1"), "nil")

-----------------------------------------------------------------------------
(* Properties of the checkpoint arithmetic *)

\* c + 1 is a multiple of the frequency (the frequency divides 2^32, so the
\* sum is not reduced)
IsCheckpoint(c) == (c.lo + 1) % CheckpointFrequency = 0

\* a <= b
AtMost(a, b) == a.hi < b.hi \/ (a.hi = b.hi /\ a.lo <= b.lo)

\* b - a as an integer, when it lies below a limb (a limb otherwise)
Distance(a, b) ==
    IF b.hi = a.hi /\ b.lo >= a.lo THEN b.lo - a.lo
    ELSE IF b.hi = a.hi + 1 /\ b.lo < a.lo THEN (Limb + b.lo) - a.lo
    ELSE Limb

\* the checkpoint containing seq: the only c with c + 1 a multiple of the
\* frequency and seq <= c < seq + 64
ContainingCheckpoint(seq) ==
    U32(seq.hi, ((seq.lo \div CheckpointFrequency) * CheckpointFrequency) + CheckpointFrequency - 1)

\* C27: for all 32-bit unsigned seq and maxSeq, GetCheckpointNum either
\* returns a checkpoint c with (c + 1) mod 64 = 0, seq <= c < seq + 64 and
\* c <= maxSeq, or returns an error, and it returns an error exactly when
\* the checkpoint containing seq does not exist at or below maxSeq
C27_CheckpointNum ==
    lookup.by = "GetCheckpointNum" =>
        /\ lookup.result.err = "nil" =>
             /\ IsCheckpoint(lookup.result.checkpoint)
             /\ AtMost(lookup.seq, lookup.result.checkpoint)
             /\ Distance(lookup.seq, lookup.result.checkpoint) < CheckpointFrequency
             /\ AtMost(lookup.result.checkpoint, lookup.maxSeq)
        /\ lookup.result.err # "nil" <=> ~AtMost(ContainingCheckpoint(lookup.seq), lookup.maxSeq)

\* GetCheckpointNum has returned ledger 63 without an error although the
\* last ledger is 2
C27_Witness ==
    /\ lookup.by = "GetCheckpointNum"
    /\ lookup.seq = U32(0, 63)
    /\ lookup.maxSeq = U32(0, 2)
    /\ lookup.result = CheckpointResult(U32(0, 63), "nil")

\* C28: for every 32-bit unsigned seq, GetMostRecentCheckpoint returns a
\* value r with (r + 1) mod 64 = 0, r <= seq and seq - r < 64, the most
\* recent checkpoint at or before seq
C28_MostRecentCheckpoint ==
    lookup.by = "GetMostRecentCheckpoint" =>
        /\ IsCheckpoint(lookup.result.checkpoint)
        /\ AtMost(lookup.result.checkpoint, lookup.seq)
        /\ Distance(lookup.result.checkpoint, lookup.seq) < CheckpointFrequency

\* GetMostRecentCheckpoint has returned 4294967295 for ledger 2
C28_Witness ==
    /\ lookup.by = "GetMostRecentCheckpoint"
    /\ lookup.seq = U32(0, 2)
    /\ lookup.result.checkpoint = U32(Limb - 1, Limb - 1)

-----------------------------------------------------------------------------
(* Properties of the manage-data generator *)

DataEffectTypes == {"EffectDataCreated", "EffectDataRemoved", "EffectDataUpdated"}

\* the last call was made on a manage-data operation of a successful
\* transaction with readable meta
ManageDataCalled ==
    /\ ret.called
    /\ tx.Successful
    /\ tx.MetaOk
    /\ CalledOperation.Type = "ManageData"

\* the data-entry changes of the operation the last call was made on
CalledDataChanges == SelectSeq(CalledOperation.Changes, LAMBDA c : c.Type = "data")

\* the effect type the presence of the states of a data change stands for
DataEffectTypeOf(c) ==
    IF IsNone(c.Pre) THEN "EffectDataCreated"
    ELSE IF IsNone(c.Post) THEN "EffectDataRemoved"
    ELSE "EffectDataUpdated"

\* C29: the manage-data generator appends exactly one effect per operation,
\* and the type of that effect is always one of DataCreated, DataRemoved or
\* DataUpdated, chosen by the presence of the states before and after of the
\* first data-entry change of the operation, also when the changes of the
\* operation contain no data-entry change
C29_ManageDataOneEffect ==
    ManageDataCalled =>
        /\ Derived
        /\ Len(GeneratorEffects) = 1
        /\ GeneratorEffects[1].Type \in DataEffectTypes
        /\ Len(CalledDataChanges) > 0 =>
             GeneratorEffects[1].Type = DataEffectTypeOf(CalledDataChanges[1])

\* a manage-data operation without any change has yielded one effect, of
\* the zero value of the effect type, which is AccountCreated
C29_Witness ==
    /\ ManageDataCalled
    /\ Derived
    /\ CalledOperation.Changes = <<>>
    /\ Len(ret.effects) = 1
    /\ ret.effects[1].Type = EffectTypeZero
    /\ ret.effects[1].Type = "EffectAccountCreated"
    /\ ret.effects[1].Details = [name |-> "k"]

-----------------------------------------------------------------------------
(* Properties of the counters of the export command *)

\* what FinishExport reports at the end of the run
ReportedStats == PrintTransformStats(results.NumAttempts, results.NumFailures)

\* C30: at the end of every run of the loop of the effects export, for any
\* mix of failures of TransformEffect and of failures to write an entry,
\* 0 <= NumFailures <= NumAttempts, so that the reported number of
\* successful transforms is never negative
C30_FailuresWithinAttempts ==
    pc = "finished" =>
        /\ 0 <= results.NumFailures
        /\ results.NumFailures <= results.NumAttempts
        /\ ReportedStats.successful_transforms >= 0

\* the run over a single transaction has ended with one attempt and two
\* failures: both effects of the transaction failed to be written
C30_Witness ==
    /\ pc = "finished"
    /\ Len(transactions) = 1
    /\ ~TransformFailed(err)
    /\ Len(effects) = 2
    /\ outFile = <<>>
    /\ results.NumAttempts = 1
    /\ results.NumFailures = 2
    /\ ReportedStats.successful_transforms = -1

====
